---- MODULE Spec2Model ----
(***************************************************************************)
(* Model of the agent scheduler: PearceKellyScheduler (scheduler.py) and   *)
(* PearceKellySchedulerOptimized (scheduler_optimized.py), with the Task   *)
(* domain model (task.py) and the gate evaluator (gates.py).               *)
(*                                                                         *)
(* Task names are the numbers 1..MaxTasks, standing for "T1".."Tn".        *)
(* A scheduler object is a record of its fields; every method is an        *)
(* operator from the object before the call to the call's outcome(s), a    *)
(* "frame" [self, exc, ret]: the object after the call, the exception      *)
(* raised ("none" when the call returned) and the return value.  Methods   *)
(* whose result depends on the iteration order of a Python set of strings  *)
(* (which changes with the interpreter's hash seed) yield a set of frames. *)
(***************************************************************************)
EXTENDS Integers, Sequences, FiniteSets, TLC

VARIABLES impl,  \* which class the caller instantiated
          pk,    \* the PearceKellyScheduler object
          opt,   \* the PearceKellySchedulerOptimized object
          now,   \* the wall clock, datetime.now(): the calls modelled here
                 \* all fall at one instant
          last,  \* the last call made: [op, args, exc, ret]
          calls, \* the number of calls made so far
          chain, \* history: the calls so far follow the linear-chain scenario
          twin   \* when two schedulers are driven by the same calls: the
                 \* second one and the outcome of the last call on it,
                 \* [self, exc, ret]

vars == <<impl, pk, opt, now, last, calls, chain, twin>>

----------------------------------------------------------------------------
(* Bounds of the model *)

MaxTasks == 3
MaxCalls == 6

Names == 1..MaxTasks

----------------------------------------------------------------------------
(* task.py *)

OPEN == "open"
BLOCKED == "blocked"
IN_PROGRESS == "in_progress"
CLOSED == "closed"

CRITICAL == 0
HIGH == 1
MEDIUM == 2
LOW == 3
BACKLOG == 4

None == "None"

Max(a, b) == IF a > b THEN a ELSE b

\* Priority.boost without the clamp at CRITICAL
boost_unclamped(value, levels) == value - levels

\* Priority.boost
boost(value, levels) == Max(0, value - levels)

\* Task.__init__: status OPEN, created_at = datetime.now()
Task(name, priority, await_type, await_id) ==
    [name |-> name, priority |-> priority, status |-> OPEN,
     created_at |-> now, await_type |-> await_type, await_id |-> await_id]

\* The priority the caller gives each task: T1 BACKLOG, T2 MEDIUM (the
\* default), T3 CRITICAL, any further task the default.
PriorityOf(name) ==
    CASE name = 1 -> BACKLOG
      [] name = 3 -> CRITICAL
      [] OTHER -> MEDIUM

\* The gate id used by the human-gated tasks
GateId == "ok"

\* The tasks a caller may hand to register_task: every name ungated, and the
\* name T1 also behind a human gate.
TaskPool ==
    {Task(n, PriorityOf(n), None, None) : n \in Names}
    \cup {Task(1, PriorityOf(1), "human", GateId)}

----------------------------------------------------------------------------
(* gates.py *)

\* not x, for an Optional[str]: None and the empty string
Falsy(x) == x \in {None, ""}

\* datetime.fromisoformat on the timer ids the callers use: "t1" and "t2"
\* name the instants 1 and 2 of the clock; any other string is malformed
WellFormedTimer(await_id) == await_id \in {"t1", "t2"}

fromisoformat(await_id) == IF await_id = "t1" THEN 1 ELSE 2

\* GateEvaluator.is_open raises: a kind outside the gate map, or a timer id
\* that does not parse
GateRaises(await_type, await_id) ==
    /\ ~Falsy(await_type) /\ ~Falsy(await_id)
    /\ \/ await_type \notin {"timer", "human", "gh:pr"}
       \/ await_type = "timer" /\ ~WellFormedTimer(await_id)

\* GateEvaluator.is_open, for the calls that do not raise.  No GitHub client
\* is configured: GitHubPRGate.is_open returns False.
is_open(self, await_type, await_id) ==
    IF Falsy(await_type) \/ Falsy(await_id) THEN TRUE
    ELSE CASE await_type = "timer" -> now >= fromisoformat(await_id)
           [] await_type = "human" -> await_id \in self.approvals
           [] OTHER -> FALSE

\* GateEvaluator.approve_human_gate / HumanGate.approve
approve_human_gate(self, await_id) ==
    [self EXCEPT !.approvals = @ \cup {await_id}]

\* GateEvaluator.revoke_human_gate / HumanGate.revoke
revoke_human_gate(self, await_id) ==
    [self EXCEPT !.approvals = @ \ {await_id}]

----------------------------------------------------------------------------
(* Helpers shared by the two classes *)

NoRet == "NoRet"

Frame(self, exc, ret) == [self |-> self, exc |-> exc, ret |-> ret]
Return(self, ret) == Frame(self, "none", ret)
Raise(self, exc) == Frame(self, exc, NoRet)

\* dict[key] = value
Put(d, k, v) == [x \in DOMAIN d \cup {k} |-> IF x = k THEN v ELSE d[x]]

\* defaultdict(set)[key]: the value read, an empty set for a missing key
Entry(d, k) == IF k \in DOMAIN d THEN d[k] ELSE {}

\* Every order in which a Python set may be iterated
RECURSIVE Perms(_)
Perms(S) ==
    IF S = {} THEN {<<>>}
    ELSE UNION {{<<x>> \o p : p \in Perms(S \ {x})} : x \in S}

\* The rank values held by the tasks of S, ascending (with repetitions)
RECURSIVE SortedRanks(_, _)
SortedRanks(ranks, S) ==
    IF S = {} THEN <<>>
    ELSE LET m == CHOOSE x \in S : \A y \in S : ranks[x] <= ranks[y]
         IN <<ranks[m]>> \o SortedRanks(ranks, S \ {m})

\* The tasks of S as a list sorted by rank: list.sort(key=ranks), for ranks
\* that are pairwise distinct
RECURSIVE SortByRank(_, _)
SortByRank(ranks, S) ==
    IF S = {} THEN <<>>
    ELSE LET m == CHOOSE x \in S : \A y \in S : ranks[x] <= ranks[y]
         IN <<m>> \o SortByRank(ranks, S \ {m})

\* The while-loop of Kahn's algorithm over the tasks of subset: pop the head
\* of the queue, decrement its successors in subset, append those that reach
\* zero in the iteration order of the set adj[u].
RECURSIVE KahnLoop(_, _, _, _, _)
KahnLoop(adj, subset, queue, in_degree, result) ==
    IF queue = <<>> THEN {result}
    ELSE LET u == Head(queue)
             nbrs == adj[u] \cap subset
             deg == [t \in subset |->
                        IF t \in nbrs THEN in_degree[t] - 1 ELSE in_degree[t]]
             zero == {v \in nbrs : deg[v] = 0}
         IN UNION {KahnLoop(adj, subset, Tail(queue) \o p, deg,
                            Append(result, u)) : p \in Perms(zero)}

\* The in-degree of each task of subset counting edges inside subset
LocalInDegree(adj, subset) ==
    [t \in subset |-> Cardinality({p \in subset : t \in adj[p]})]

----------------------------------------------------------------------------
(* scheduler.py: class PearceKellyScheduler *)

\* __init__, with the constructor arguments of cfg
\* The defaults of the constructor arguments aging_threshold, timedelta(days=7)
\* in seconds (the unit of the clock), and aging_boost
aging_threshold == 604800
aging_boost == 1

\* The constructor arguments for aging that cfg gives, or their defaults
AgingThresholdOf(cfg) ==
    IF "aging_threshold" \in DOMAIN cfg THEN cfg.aging_threshold
    ELSE aging_threshold

AgingBoostOf(cfg) ==
    IF "aging_boost" \in DOMAIN cfg THEN cfg.aging_boost ELSE aging_boost

PK_init(cfg) ==
    [tasks |-> <<>>, order |-> <<>>,
     adj |-> <<>>, preds |-> <<>>, ranks |-> <<>>,
     indegree_cache |-> <<>>, indegree_valid |-> {},
     enable_priority_inheritance |-> cfg.enable_priority_inheritance,
     priority_inheritance_depth |-> cfg.priority_inheritance_depth,
     aging_threshold |-> AgingThresholdOf(cfg),
     aging_boost |-> AgingBoostOf(cfg),
     approvals |-> {}]

\* register_task, were the adjacency entry of the name created before the
\* name is looked up
PK_register_task_entry_first(self, task) ==
    IF task.name \in DOMAIN self.tasks
    THEN Raise([self EXCEPT !.adj = Put(@, task.name, {})],
               "ValueError: already registered")
    ELSE Return([self EXCEPT
                   !.tasks = Put(@, task.name, task),
                   !.order = Append(@, task.name),
                   !.adj = Put(@, task.name, {}),
                   !.preds = Put(@, task.name, {}),
                   !.ranks = Put(@, task.name, Cardinality(DOMAIN self.tasks)),
                   !.indegree_cache = Put(@, task.name, 0),
                   !.indegree_valid = @ \cup {task.name}], NoRet)

\* register_task
PK_register_task(self, task) ==
    IF task.name \in DOMAIN self.tasks
    THEN Raise(self, "ValueError: already registered")
    ELSE Return([self EXCEPT
                   !.tasks = Put(@, task.name, task),
                   !.order = Append(@, task.name),
                   !.adj = Put(@, task.name, {}),
                   !.preds = Put(@, task.name, {}),
                   !.ranks = Put(@, task.name, Cardinality(DOMAIN self.tasks)),
                   !.indegree_cache = Put(@, task.name, 0),
                   !.indegree_valid = @ \cup {task.name}], NoRet)

\* get_indegree: the value returned for a registered task
PK_indegree(self, task_name) ==
    IF task_name \in self.indegree_valid
    THEN self.indegree_cache[task_name]
    ELSE Cardinality({pred \in self.preds[task_name] :
                         self.tasks[pred].status = OPEN})

\* get_indegree: the object after the call (the value is cached)
PK_get_indegree(self, task_name) ==
    [self EXCEPT
       !.indegree_cache = Put(@, task_name, PK_indegree(self, task_name)),
       !.indegree_valid = @ \cup {task_name}]

\* _invalidate_indegree
PK_invalidate_indegree(self, task_name) ==
    [self EXCEPT !.indegree_valid = (@ \ {task_name}) \ self.adj[task_name]]

\* _update_task_status
PK_update_task_status(self, task_name) ==
    LET task == self.tasks[task_name]
        s1 == PK_get_indegree(self, task_name)
        indegree == PK_indegree(self, task_name)
    IN IF task.status = CLOSED THEN Return(self, NoRet)
       ELSE IF GateRaises(task.await_type, task.await_id)
       THEN Raise(s1, "ValueError: gate")
       ELSE IF indegree > 0 \/ ~is_open(s1, task.await_type, task.await_id)
       THEN Return([s1 EXCEPT !.tasks[task_name].status = BLOCKED], NoRet)
       ELSE IF task.status = BLOCKED
       THEN Return([s1 EXCEPT !.tasks[task_name].status = OPEN], NoRet)
       ELSE Return(s1, NoRet)

\* _get_affected_descendants: the tasks the search from start_task visits,
\* a neighbor being followed only when its rank is at most upper_bound
RECURSIVE PK_visit_descendants(_, _, _)
PK_visit_descendants(self, visited, upper_bound) ==
    LET more == {n \in UNION {self.adj[c] : c \in visited} :
                    n \notin visited /\ self.ranks[n] <= upper_bound}
    IN IF more = {} THEN visited
       ELSE PK_visit_descendants(self, visited \cup more, upper_bound)

PK_get_affected_descendants(self, start_task, upper_bound) ==
    PK_visit_descendants(self, {start_task}, upper_bound)

\* _get_affected_ancestors
RECURSIVE PK_visit_ancestors(_, _, _)
PK_visit_ancestors(self, visited, lower_bound) ==
    LET more == {p \in UNION {self.preds[c] : c \in visited} :
                    p \notin visited /\ self.ranks[p] >= lower_bound}
    IN IF more = {} THEN visited
       ELSE PK_visit_ancestors(self, visited \cup more, lower_bound)

PK_get_affected_ancestors(self, start_task, lower_bound) ==
    PK_visit_ancestors(self, {start_task}, lower_bound)

\* _subgraph_topological_sort: every order the sweep may produce.  The
\* initial queue lists the tasks of in-degree 0 in the iteration order of
\* the set `subset`.
PK_subgraph_topological_sort(self, subset) ==
    LET local_in_degree == LocalInDegree(self.adj, subset)
    IN UNION {KahnLoop(self.adj, subset, queue, local_in_degree, <<>>) :
                 queue \in Perms({t \in subset : local_in_degree[t] = 0})}

\* _reorder: the objects the call may leave, one per order of the sweep
PK_reorder(self, ancestors, descendants) ==
    LET affected_tasks == ancestors \cup descendants
        available_ranks == SortedRanks(self.ranks, affected_tasks)
    IN {[self EXCEPT
           !.ranks = [t \in DOMAIN self.ranks |->
                        IF \E i \in 1..Len(new_order) : new_order[i] = t
                        THEN available_ranks[CHOOSE i \in 1..Len(new_order) :
                                                new_order[i] = t]
                        ELSE self.ranks[t]],
           !.indegree_valid = @ \ affected_tasks]
        : new_order \in PK_subgraph_topological_sort(self, affected_tasks)}

\* add_dependency, were the edge added to adj alone
PK_add_edge_adj_only(self, source, dest) ==
    LET s1 == [self EXCEPT !.adj[source] = @ \cup {dest}]
        f == PK_update_task_status(PK_invalidate_indegree(s1, dest), dest)
    IN Frame(f.self, f.exc, IF f.exc = "none" THEN TRUE ELSE NoRet)

\* add_dependency, from "self.adj[source].add(dest)" to "return True"
PK_add_edge(self, source, dest) ==
    LET s1 == [self EXCEPT !.adj[source] = @ \cup {dest},
                           !.preds[dest] = @ \cup {source}]
        f == PK_update_task_status(PK_invalidate_indegree(s1, dest), dest)
    IN Frame(f.self, f.exc, IF f.exc = "none" THEN TRUE ELSE NoRet)

\* The breadth-first search of _reconstruct_cycle: queue holds the pairs
\* <<task, path from dest to it>>; the neighbors of a task are met in any
\* order.  The path found is closed with dest; [source, dest] is the fallback.
RECURSIVE PK_cycle_search(_, _, _, _, _)
PK_cycle_search(self, source, dest, queue, visited) ==
    IF queue = <<>> THEN {<<source, dest>>}
    ELSE LET curr == Head(queue)[1]
             path == Head(queue)[2]
             fresh == Entry(self.adj, curr) \ visited
         IN IF curr = source THEN {Append(path, dest)}
            ELSE UNION {PK_cycle_search(
                            self, source, dest,
                            Tail(queue) \o [i \in 1..Len(ns) |->
                                               <<ns[i], Append(path, ns[i])>>],
                            visited \cup fresh) : ns \in Perms(fresh)}

\* _reconstruct_cycle: the paths the cycle error may carry
PK_reconstruct_cycle(self, source, dest) ==
    PK_cycle_search(self, source, dest, <<<<dest, <<dest>>>>>>, {dest})

\* add_dependency: the outcomes of the call
PK_add_dependency(self, source, dest) ==
    IF source \notin DOMAIN self.tasks \/ dest \notin DOMAIN self.tasks
    THEN {Raise(self, "KeyError")}
    ELSE IF source = dest THEN {Raise(self, "ValueError: self-loop")}
    ELSE IF dest \in self.adj[source] THEN {Return(self, TRUE)}
    ELSE IF self.ranks[source] < self.ranks[dest]
    THEN {PK_add_edge(self, source, dest)}
    ELSE LET lower_bound == self.ranks[dest]
             upper_bound == self.ranks[source]
             descendants == PK_get_affected_descendants(self, dest, upper_bound)
             ancestors == PK_get_affected_ancestors(self, source, lower_bound)
         IN IF source \in descendants
            THEN {Frame(self, "ValueError: cycle", cycle_path) :
                     cycle_path \in PK_reconstruct_cycle(self, source, dest)}
            ELSE {PK_add_edge(s, source, dest) :
                     s \in PK_reorder(self, ancestors, descendants)}

\* remove_dependency, were the edge discarded from adj alone
PK_remove_dependency_adj_only(self, source, dest) ==
    IF source \notin DOMAIN self.tasks \/ dest \notin DOMAIN self.tasks
    THEN Raise(self, "KeyError")
    ELSE IF dest \notin self.adj[source] THEN Return(self, FALSE)
    ELSE LET s1 == [self EXCEPT !.adj[source] = @ \ {dest}]
             f == PK_update_task_status(PK_invalidate_indegree(s1, dest), dest)
         IN Frame(f.self, f.exc, IF f.exc = "none" THEN TRUE ELSE NoRet)

\* remove_dependency
PK_remove_dependency(self, source, dest) ==
    IF source \notin DOMAIN self.tasks \/ dest \notin DOMAIN self.tasks
    THEN Raise(self, "KeyError")
    ELSE IF dest \notin self.adj[source] THEN Return(self, FALSE)
    ELSE LET s1 == [self EXCEPT !.adj[source] = @ \ {dest},
                                !.preds[dest] = @ \ {source}]
             f == PK_update_task_status(PK_invalidate_indegree(s1, dest), dest)
         IN Frame(f.self, f.exc, IF f.exc = "none" THEN TRUE ELSE NoRet)

\* The search of compute_effective_priority, were every dependent followed
\* whatever its status
RECURSIVE PK_inherit_any_status(_, _, _, _, _)
PK_inherit_any_status(self, frontier, visited, depth, min_priority) ==
    IF frontier = {} \/ depth >= self.priority_inheritance_depth
    THEN min_priority
    ELSE LET dependents == UNION {self.adj[curr] : curr \in frontier} \ visited
             lower == {self.tasks[d].priority : d \in dependents}
                         \cup {min_priority}
             m == CHOOSE x \in lower : \A y \in lower : x <= y
         IN PK_inherit_any_status(self, dependents, visited \cup dependents,
                                  depth + 1, m)

\* The breadth-first search of compute_effective_priority.  The queue holds
\* its entries in order of depth, so it is processed one depth at a time:
\* frontier is the set of queued tasks of that depth.
RECURSIVE PK_inherit(_, _, _, _, _)
PK_inherit(self, frontier, visited, depth, min_priority) ==
    IF frontier = {} \/ depth >= self.priority_inheritance_depth
    THEN min_priority
    ELSE LET dependents == UNION {self.adj[curr] : curr \in frontier} \ visited
             lower == {self.tasks[d].priority : d \in dependents}
                         \cup {min_priority}
             m == CHOOSE x \in lower : \A y \in lower : x <= y
         IN PK_inherit(self,
                       {d \in dependents :
                           self.tasks[d].status \in {OPEN, BLOCKED}},
                       visited \cup dependents, depth + 1, m)

\* compute_effective_priority
PK_compute_effective_priority(self, task_name) ==
    IF ~self.enable_priority_inheritance
    THEN self.tasks[task_name].priority
    ELSE PK_inherit(self, {task_name}, {task_name}, 0,
                    self.tasks[task_name].priority)

\* compute_ready_tasks: the names of the tasks returned
PK_ready_names(self) ==
    {n \in DOMAIN self.tasks :
        /\ self.tasks[n].status = OPEN
        /\ PK_indegree(self, n) = 0
        /\ is_open(self, self.tasks[n].await_type, self.tasks[n].await_id)}

\* compute_ready_tasks: get_indegree is called for every OPEN task
PK_compute_ready_tasks(self) ==
    LET asked == {n \in DOMAIN self.tasks : self.tasks[n].status = OPEN}
    IN Return([self EXCEPT
                 !.indegree_cache =
                     [n \in DOMAIN @ \cup asked |->
                         IF n \in asked THEN PK_indegree(self, n) ELSE @[n]],
                 !.indegree_valid = @ \cup asked],
              PK_ready_names(self))

----------------------------------------------------------------------------
(* scheduler_optimized.py: class PearceKellySchedulerOptimized *)

\* The default of the constructor argument ready_cache_ttl, in seconds
ready_cache_ttl == 60

\* f, then the call G on the object f leaves, unless f raised
Bind(f, G(_)) == IF f.exc # "none" THEN f ELSE G(f.self)

\* __init__, with the constructor arguments of cfg; ready_computed_at is
\* <<>> for None and <<t>> for the instant t
Opt_init(cfg) ==
    [tasks |-> <<>>, order |-> <<>>,
     adj |-> <<>>, preds |-> <<>>, ranks |-> <<>>,
     indegree_cache |-> <<>>, indegree_valid |-> {},
     ready_set |-> {}, ready_valid |-> FALSE, ready_computed_at |-> <<>>,
     ready_cache_ttl |-> ready_cache_ttl,
     priority_cache |-> <<>>, priority_valid |-> {},
     dirty_tasks |-> {},
     enable_priority_inheritance |-> cfg.enable_priority_inheritance,
     priority_inheritance_depth |-> cfg.priority_inheritance_depth,
     aging_threshold |-> AgingThresholdOf(cfg),
     aging_boost |-> AgingBoostOf(cfg),
     approvals |-> {}]

\* get_indegree: the value returned.  The method does not look the name up
\* in tasks: preds is a defaultdict, and a name without predecessors has
\* in-degree 0 whether it is registered or not.
Opt_indegree(self, task_name) ==
    IF task_name \in self.indegree_valid
    THEN self.indegree_cache[task_name]
    ELSE Cardinality({pred \in Entry(self.preds, task_name) :
                         self.tasks[pred].status = OPEN})

\* get_indegree: the object after the call.  Reading preds[task_name]
\* creates the entry if it is missing, and the value is cached.
Opt_get_indegree(self, task_name) ==
    IF task_name \in self.indegree_valid THEN self
    ELSE [self EXCEPT
            !.preds = Put(@, task_name, Entry(@, task_name)),
            !.indegree_cache = Put(@, task_name, Opt_indegree(self, task_name)),
            !.indegree_valid = @ \cup {task_name}]

\* _invalidate_indegree
Opt_invalidate_indegree(self, task_name) ==
    [self EXCEPT !.indegree_valid = (@ \ {task_name}) \ self.adj[task_name]]

\* _invalidate_ready_cache
Opt_invalidate_ready_cache(self) == [self EXCEPT !.ready_valid = FALSE]

\* _invalidate_priority_cache
Opt_invalidate_priority_cache(self, task_name) ==
    [self EXCEPT !.priority_valid = (@ \ {task_name}) \ self.preds[task_name]]

\* _check_and_add_to_ready
Opt_check_and_add_to_ready(self, task_name) ==
    LET task == self.tasks[task_name]
        s1 == Opt_get_indegree(self, task_name)
        indegree == Opt_indegree(self, task_name)
    IN IF task.status # OPEN
       THEN Return([self EXCEPT !.ready_set = @ \ {task_name}], NoRet)
       ELSE IF indegree > 0
       THEN Return([s1 EXCEPT !.ready_set = @ \ {task_name}], NoRet)
       ELSE IF GateRaises(task.await_type, task.await_id)
       THEN Raise(s1, "ValueError: gate")
       ELSE IF ~is_open(s1, task.await_type, task.await_id)
       THEN Return([s1 EXCEPT !.ready_set = @ \ {task_name}], NoRet)
       ELSE Return([s1 EXCEPT !.ready_set = @ \cup {task_name}], NoRet)

\* register_task
Opt_register_task(self, task) ==
    IF task.name \in DOMAIN self.tasks
    THEN Raise(self, "ValueError: already registered")
    ELSE LET s1 == [self EXCEPT
                      !.tasks = Put(@, task.name, task),
                      !.order = Append(@, task.name),
                      !.adj = Put(@, task.name, {}),
                      !.preds = Put(@, task.name, {}),
                      !.ranks = Put(@, task.name,
                                    Cardinality(DOMAIN self.tasks)),
                      !.indegree_cache = Put(@, task.name, 0),
                      !.indegree_valid = @ \cup {task.name}]
             f == IF task.status = OPEN
                  THEN Opt_check_and_add_to_ready(s1, task.name)
                  ELSE Return(s1, NoRet)
         IN Bind(f, LAMBDA s : Return(Opt_invalidate_ready_cache(s), NoRet))

\* _update_task_status
Opt_update_task_status(self, task_name) ==
    LET task == self.tasks[task_name]
        s1 == Opt_get_indegree(self, task_name)
        indegree == Opt_indegree(self, task_name)
        status == IF indegree > 0
                     \/ ~is_open(s1, task.await_type, task.await_id)
                  THEN BLOCKED
                  ELSE IF task.status = BLOCKED THEN OPEN ELSE task.status
        s2 == [s1 EXCEPT !.tasks[task_name].status = status]
    IN IF task.status = CLOSED THEN Return(self, NoRet)
       ELSE IF GateRaises(task.await_type, task.await_id)
       THEN Raise(s1, "ValueError: gate")
       ELSE IF status = task.status THEN Return(s2, NoRet)
       ELSE Bind(IF status = OPEN
                 THEN Opt_check_and_add_to_ready(s2, task_name)
                 ELSE Return([s2 EXCEPT !.ready_set = @ \ {task_name}], NoRet),
                 LAMBDA s : Return(Opt_invalidate_ready_cache(s), NoRet))

\* _handle_edge_addition
Opt_handle_edge_addition(self, source, dest) ==
    LET s1 == [self EXCEPT
                 !.ready_set = @ \ {dest},
                 !.dirty_tasks = (@ \cup {dest}) \cup self.adj[dest]]
    IN Opt_invalidate_ready_cache(Opt_invalidate_priority_cache(s1, dest))

\* _handle_edge_removal
Opt_handle_edge_removal(self, source, dest) ==
    Bind(Opt_check_and_add_to_ready(self, dest),
         LAMBDA s :
            Return(Opt_invalidate_ready_cache(Opt_invalidate_priority_cache(
                      [s EXCEPT !.dirty_tasks = (@ \cup {dest}) \cup s.adj[dest]],
                      dest)), NoRet))

\* The tasks the search of _would_create_cycle pops, were it never to stop
RECURSIVE Opt_visit(_, _)
Opt_visit(self, visited) ==
    LET more == UNION {self.adj[c] : c \in visited} \ visited
    IN IF more = {} THEN visited ELSE Opt_visit(self, visited \cup more)

\* _would_create_cycle
Opt_would_create_cycle(self, source, dest) ==
    source \in Opt_visit(self, {dest})

\* affected.sort(key=ranks) of _reorder_after_edge: a stable sort of the
\* tasks of S taken in the order of the dict self.tasks
RECURSIVE Opt_sort_by_rank(_, _)
Opt_sort_by_rank(self, S) ==
    IF S = {} THEN <<>>
    ELSE LET pos(t) == CHOOSE i \in 1..Len(self.order) : self.order[i] = t
             m == CHOOSE x \in S : \A y \in S :
                     \/ self.ranks[x] < self.ranks[y]
                     \/ self.ranks[x] = self.ranks[y] /\ pos(x) <= pos(y)
         IN <<m>> \o Opt_sort_by_rank(self, S \ {m})

\* _reorder_after_edge: the objects the call may leave, one per order in
\* which the sets adj[current] are iterated
Opt_reorder_after_edge(self, source, dest) ==
    LET subset == {t \in DOMAIN self.tasks :
                      /\ self.ranks[dest] <= self.ranks[t]
                      /\ self.ranks[t] <= self.ranks[source]}
        affected == Opt_sort_by_rank(self, subset)
        temp_in_degree == [node \in subset |->
                              Cardinality(self.preds[node] \cap subset)]
        queue == SelectSeq(affected, LAMBDA node : temp_in_degree[node] = 0)
        base_rank == self.ranks[dest]
    IN {[self EXCEPT
           !.ranks = [t \in DOMAIN self.ranks |->
                        IF \E i \in 1..Len(new_order) : new_order[i] = t
                        THEN base_rank - 1
                             + (CHOOSE i \in 1..Len(new_order) : new_order[i] = t)
                        ELSE self.ranks[t]]]
        : new_order \in KahnLoop(self.adj, subset, queue, temp_in_degree, <<>>)}

\* add_dependency past its checks: the edge is inserted, the caches and the
\* status of dest follow, and the ranks are repaired when out of order
Opt_insert_edge(self, source, dest) ==
    LET s1 == [self EXCEPT !.adj[source] = @ \cup {dest},
                           !.preds[dest] = @ \cup {source}]
        f == Opt_update_task_status(Opt_invalidate_indegree(s1, dest), dest)
        s2 == Opt_handle_edge_addition(f.self, source, dest)
    IN IF f.exc # "none" THEN {f}
       ELSE IF s2.ranks[source] > s2.ranks[dest]
       THEN {Return(s, TRUE) : s \in Opt_reorder_after_edge(s2, source, dest)}
       ELSE {Return(s2, TRUE)}

\* add_dependency, were the edge inserted before the search for a cycle and
\* left in place when the search finds one
Opt_add_dependency_edge_first(self, source, dest) ==
    IF source \notin DOMAIN self.tasks \/ dest \notin DOMAIN self.tasks
    THEN {Raise(self, "ValueError: not found")}
    ELSE IF dest \in self.adj[source] THEN {Return(self, FALSE)}
    ELSE IF /\ self.ranks[source] > self.ranks[dest]
            /\ Opt_would_create_cycle(self, source, dest)
    THEN {Raise([self EXCEPT !.adj[source] = @ \cup {dest},
                             !.preds[dest] = @ \cup {source}],
                "ValueError: cycle")}
    ELSE Opt_insert_edge(self, source, dest)

\* The path _reconstruct_cycle builds from the dict parent: from source back
\* along the parents to dest
RECURSIVE Opt_parent_path(_, _, _)
Opt_parent_path(parent, node, dest) ==
    IF node = dest THEN <<node>>
    ELSE <<node>> \o Opt_parent_path(parent, parent[node], dest)

\* The depth-first search of _reconstruct_cycle: the last task of stack is
\* popped, and its neighbors not yet visited get it for parent and are pushed
\* in any order.  [source, dest, source] is the fallback.
RECURSIVE Opt_cycle_search(_, _, _, _, _, _)
Opt_cycle_search(self, source, dest, stack, visited, parent) ==
    IF stack = <<>> THEN {<<source, dest, source>>}
    ELSE LET current == stack[Len(stack)]
             rest == SubSeq(stack, 1, Len(stack) - 1)
             fresh == Entry(self.adj, current) \ (visited \cup {current})
         IN IF current = source
            THEN {Append(Opt_parent_path(parent, source, dest), source)}
            ELSE IF current \in visited
            THEN Opt_cycle_search(self, source, dest, rest, visited, parent)
            ELSE UNION {Opt_cycle_search(
                            self, source, dest, rest \o ns,
                            visited \cup {current},
                            [n \in DOMAIN parent \cup fresh |->
                                IF n \in fresh THEN current ELSE parent[n]]) :
                        ns \in Perms(fresh)}

\* _reconstruct_cycle: the paths the cycle error may carry
Opt_reconstruct_cycle(self, source, dest) ==
    Opt_cycle_search(self, source, dest, <<dest>>, {}, <<>>)

\* add_dependency: the outcomes of the call
Opt_add_dependency(self, source, dest) ==
    IF source \notin DOMAIN self.tasks \/ dest \notin DOMAIN self.tasks
    THEN {Raise(self, "ValueError: not found")}
    ELSE IF dest \in self.adj[source] THEN {Return(self, FALSE)}
    ELSE IF /\ self.ranks[source] > self.ranks[dest]
            /\ Opt_would_create_cycle(self, source, dest)
    THEN {Frame(self, "ValueError: cycle", cycle) :
             cycle \in Opt_reconstruct_cycle(self, source, dest)}
    ELSE Opt_insert_edge(self, source, dest)

\* remove_dependency
Opt_remove_dependency(self, source, dest) ==
    IF source \notin DOMAIN self.tasks \/ dest \notin DOMAIN self.tasks
    THEN Raise(self, "ValueError: not found")
    ELSE IF dest \notin self.adj[source] THEN Return(self, FALSE)
    ELSE LET s1 == [self EXCEPT !.adj[source] = @ \ {dest},
                                !.preds[dest] = @ \ {source}]
             f == Bind(Opt_update_task_status(Opt_invalidate_indegree(s1, dest),
                                              dest),
                       LAMBDA s : Opt_handle_edge_removal(s, source, dest))
         IN Frame(f.self, f.exc, IF f.exc = "none" THEN TRUE ELSE NoRet)

\* The breadth-first search of compute_effective_priority, one depth of the
\* queue at a time
RECURSIVE Opt_inherit(_, _, _, _, _)
Opt_inherit(self, frontier, visited, depth, min_priority) ==
    IF frontier = {} \/ depth >= self.priority_inheritance_depth
    THEN min_priority
    ELSE LET dependents == UNION {self.adj[curr] : curr \in frontier} \ visited
             lower == {self.tasks[d].priority : d \in dependents}
                         \cup {min_priority}
             m == CHOOSE x \in lower : \A y \in lower : x <= y
         IN Opt_inherit(self,
                        {d \in dependents :
                            self.tasks[d].status \in {OPEN, BLOCKED}},
                        visited \cup dependents, depth + 1, m)

\* compute_effective_priority without the cache, were the minimum taken over
\* the dependents alone
Opt_uncached_priority_of_dependents(self, task_name) ==
    IF ~self.enable_priority_inheritance
    THEN self.tasks[task_name].priority
    ELSE Opt_inherit(self, {task_name}, {task_name}, 0, BACKLOG)

\* compute_effective_priority without the cache: lines 405-436
Opt_uncached_priority(self, task_name) ==
    IF ~self.enable_priority_inheritance
    THEN self.tasks[task_name].priority
    ELSE Opt_inherit(self, {task_name}, {task_name}, 0,
                     self.tasks[task_name].priority)

\* compute_effective_priority: the value returned
Opt_effective_priority(self, task_name) ==
    IF task_name \in self.priority_valid
    THEN self.priority_cache[task_name]
    ELSE Opt_uncached_priority(self, task_name)

\* compute_effective_priority: the object after the call
Opt_compute_effective_priority(self, task_name) ==
    [self EXCEPT
       !.priority_cache = Put(@, task_name,
                              Opt_effective_priority(self, task_name)),
       !.priority_valid = @ \cup {task_name}]

\* _is_ready_cache_stale
Opt_is_ready_cache_stale(self) ==
    IF ~self.ready_valid THEN TRUE
    ELSE IF self.ready_cache_ttl = 0 THEN FALSE
    ELSE IF self.ready_computed_at = <<>> THEN TRUE
    ELSE now - self.ready_computed_at[1] > self.ready_cache_ttl

\* The loop of _rebuild_ready_set over the dict self.tasks
RECURSIVE Opt_check_all(_, _)
Opt_check_all(f, names) ==
    IF names = <<>> \/ f.exc # "none" THEN f
    ELSE Opt_check_all(Opt_check_and_add_to_ready(f.self, Head(names)),
                       Tail(names))

\* _rebuild_ready_set
Opt_rebuild_ready_set(self) ==
    Bind(Opt_check_all(Return([self EXCEPT !.ready_set = {}], NoRet),
                       self.order),
         LAMBDA s : Return([s EXCEPT !.ready_valid = TRUE,
                                     !.ready_computed_at = <<now>>,
                                     !.dirty_tasks = {}], NoRet))

\* compute_ready_tasks: the ready set is rebuilt when invalid or stale, then
\* compute_effective_priority is called for every task of it; the value
\* returned is the names of the tasks of the list
Opt_compute_ready_tasks(self) ==
    Bind(IF ~self.ready_valid \/ Opt_is_ready_cache_stale(self)
         THEN Opt_rebuild_ready_set(self)
         ELSE Return(self, NoRet),
         LAMBDA s :
            Return(IF s.ready_set = {} THEN s
                   ELSE [s EXCEPT
                           !.priority_cache =
                               [n \in DOMAIN @ \cup s.ready_set |->
                                   IF n \in s.ready_set
                                   THEN Opt_effective_priority(s, n) ELSE @[n]],
                           !.priority_valid = @ \cup s.ready_set],
                   s.ready_set))

\* The first loop of mark_completed over the successors, in the order given
RECURSIVE Opt_complete_successors(_, _)
Opt_complete_successors(f, successors) ==
    IF successors = <<>> \/ f.exc # "none" THEN f
    ELSE Opt_complete_successors(
             Opt_check_and_add_to_ready(
                 Opt_invalidate_indegree(f.self, Head(successors)),
                 Head(successors)),
             Tail(successors))

\* The second loop of mark_completed
RECURSIVE Opt_invalidate_priorities(_, _)
Opt_invalidate_priorities(self, successors) ==
    IF successors = {} THEN self
    ELSE LET x == CHOOSE x \in successors : TRUE
         IN Opt_invalidate_priorities(Opt_invalidate_priority_cache(self, x),
                                      successors \ {x})

\* mark_completed: the outcomes of the call, one per iteration order of the
\* set adj[task_name]
Opt_mark_completed(self, task_name) ==
    IF task_name \notin DOMAIN self.tasks
    THEN {Raise(self, "ValueError: not found")}
    ELSE LET s1 == [self EXCEPT !.tasks[task_name].status = CLOSED,
                                !.ready_set = @ \ {task_name}]
         IN {Bind(Opt_complete_successors(Return(s1, NoRet), successors),
                  LAMBDA s : Return(Opt_invalidate_ready_cache(
                      Opt_invalidate_priorities(s, s.adj[task_name])), NoRet))
             : successors \in Perms(s1.adj[task_name])}

----------------------------------------------------------------------------
(* The ordered results of the two classes *)

\* Task.__init__: the default duration, which every task of the model has
duration == 1

\* The sort key, were created_at compared before the priority
KeyLessByAge(a, b) == a[2] < b[2] \/ (a[2] = b[2] /\ a[1] < b[1])

\* Tuples compared by their first two components (a sort key of two parts)
KeyLess(a, b) == a[1] < b[1] \/ (a[1] = b[1] /\ a[2] < b[2])

\* Tuples of three compared as Python compares them (a heap entry)
TupleLess(a, b) ==
    \/ a[1] < b[1]
    \/ a[1] = b[1] /\ a[2] < b[2]
    \/ a[1] = b[1] /\ a[2] = b[2] /\ a[3] < b[3]

\* list.sort by the first two components: x is placed after the entries
\* that do not come after it (the sort is stable)
RECURSIVE Insert(_, _)
Insert(sorted, x) ==
    IF sorted = <<>> THEN <<x>>
    ELSE IF KeyLess(x, Head(sorted)) THEN <<x>> \o sorted
    ELSE <<Head(sorted)>> \o Insert(Tail(sorted), x)

RECURSIVE StableSort(_)
StableSort(list) ==
    IF list = <<>> THEN <<>>
    ELSE Insert(StableSort(SubSeq(list, 1, Len(list) - 1)), list[Len(list)])

\* The entry of compute_ready_tasks for a ready task whose
\* compute_effective_priority is effective_priority:
\* <<effective priority, created_at, name, priority_boosted>>.  A task as
\* old as aging_threshold that is not CRITICAL is boosted, and flagged.
ReadyEntry(self, name, effective_priority) ==
    LET task == self.tasks[name]
        aged == /\ now - task.created_at >= self.aging_threshold
                /\ effective_priority > CRITICAL
    IN <<IF aged THEN boost(effective_priority, self.aging_boost)
         ELSE effective_priority,
         task.created_at, name,
         aged \/ effective_priority < task.priority>>

\* compute_ready_tasks of PearceKellyScheduler: the list returned.  The loop
\* runs over the dict self.tasks, and the list is sorted by priority, then
\* created_at.
PK_ready_list(self) ==
    LET ready == SelectSeq(self.order, LAMBDA n : n \in PK_ready_names(self))
    IN StableSort([i \in 1..Len(ready) |->
                      ReadyEntry(self, ready[i],
                                 PK_compute_effective_priority(self, ready[i]))])

\* compute_ready_tasks of PearceKellyScheduler, with the list it returns
PK_compute_ready_list(self) ==
    Return(PK_compute_ready_tasks(self).self, PK_ready_list(self))

\* compute_ready_tasks of PearceKellySchedulerOptimized, with the list it
\* returns: the loop runs over the set self._ready_set, in any order
Opt_compute_ready_lists(self) ==
    LET f == Opt_compute_ready_tasks(self)
    IN IF f.exc # "none" THEN {f}
       ELSE {Return(f.self,
                    StableSort([i \in 1..Len(names) |->
                                   ReadyEntry(f.self, names[i],
                                       f.self.priority_cache[names[i]])])) :
                names \in Perms(f.ret)}

\* The entry of the heap of topological_sort for a task
HeapEntry(self, name) ==
    <<self.tasks[name].priority, self.tasks[name].created_at, name>>

\* The while loop of topological_sort: pq is the set of the names in the
\* heap; the least entry is popped, and a neighbor whose count falls to 0
\* is pushed
RECURSIVE TopoLoop(_, _, _, _)
TopoLoop(self, temp_in_degree, pq, topo_order) ==
    IF pq = {} THEN topo_order
    ELSE LET current_name ==
                 CHOOSE n \in pq : \A m \in pq \ {n} :
                     TupleLess(HeapEntry(self, n), HeapEntry(self, m))
             neighbors == Entry(self.adj, current_name)
             lowered == [n \in DOMAIN temp_in_degree |->
                            IF n \in neighbors THEN temp_in_degree[n] - 1
                            ELSE temp_in_degree[n]]
             pushed == {n \in neighbors : lowered[n] = 0}
         IN TopoLoop(self, lowered, (pq \ {current_name}) \cup pushed,
                     Append(topo_order, current_name))

\* topological_sort, from the counts get_indegree gave
TopoOrder(self, temp_in_degree) ==
    TopoLoop(self, temp_in_degree,
             {n \in DOMAIN self.tasks : temp_in_degree[n] = 0}, <<>>)

\* topological_sort, were the edges of a popped task removed from the graph
\* instead of counted down in temp_in_degree
PK_topological_sort_consuming(self) ==
    Return([self EXCEPT
              !.indegree_cache = [n \in DOMAIN self.tasks |->
                                     PK_indegree(self, n)],
              !.indegree_valid = @ \cup DOMAIN self.tasks,
              !.adj = [n \in DOMAIN @ |-> {}],
              !.preds = [n \in DOMAIN @ |-> {}]],
           TopoOrder(self, [n \in DOMAIN self.tasks |-> PK_indegree(self, n)]))

\* topological_sort of PearceKellyScheduler: get_indegree is called for
\* every task
PK_topological_sort(self) ==
    Return([self EXCEPT
              !.indegree_cache = [n \in DOMAIN self.tasks |->
                                     PK_indegree(self, n)],
              !.indegree_valid = @ \cup DOMAIN self.tasks],
           TopoOrder(self, [n \in DOMAIN self.tasks |-> PK_indegree(self, n)]))

\* topological_sort of PearceKellySchedulerOptimized
Opt_topological_sort(self) ==
    Return([self EXCEPT
              !.indegree_cache = [n \in DOMAIN @ \cup DOMAIN self.tasks |->
                                     IF n \in DOMAIN self.tasks
                                     THEN Opt_indegree(self, n) ELSE @[n]],
              !.indegree_valid = @ \cup DOMAIN self.tasks],
           TopoOrder(self, [n \in DOMAIN self.tasks |-> Opt_indegree(self, n)]))

\* The loop of calculate_schedule of PearceKellyScheduler over topo_order:
\* an entry <<start_time, priority, task_name, end_time, status>> for every
\* task, the neighbors of a task starting no earlier than it ends
RECURSIVE PK_schedule_loop(_, _, _, _)
PK_schedule_loop(self, topo_order, earliest_start, schedule_list) ==
    IF topo_order = <<>> THEN schedule_list
    ELSE LET name == Head(topo_order)
             task == self.tasks[name]
             start_time == earliest_start[name]
             end_time == start_time + duration
         IN PK_schedule_loop(
                self, Tail(topo_order),
                [n \in DOMAIN earliest_start |->
                    IF n \in Entry(self.adj, name)
                    THEN Max(earliest_start[n], end_time)
                    ELSE earliest_start[n]],
                Append(schedule_list,
                       <<start_time, task.priority, name, end_time,
                         task.status>>))

\* calculate_schedule of PearceKellyScheduler: the schedule of the JSON
\* text, sorted by start time, then priority.  earliest_start has the tasks
\* of topo_order for keys: a neighbor outside it raises KeyError.
PK_calculate_schedule(self) ==
    LET f == PK_topological_sort(self)
        listed == {f.ret[i] : i \in DOMAIN f.ret}
    IN IF \E n \in listed : ~(Entry(self.adj, n) \subseteq listed)
       THEN Raise(f.self, "KeyError")
       ELSE Return(f.self,
                   StableSort(PK_schedule_loop(f.self, f.ret,
                                               [n \in listed |-> 0], <<>>)))

\* calculate_schedule of PearceKellySchedulerOptimized: the tasks one after
\* the other, an entry <<task, start, end, priority, status>> for each
Opt_calculate_schedule(self) ==
    LET f == Opt_topological_sort(self)
    IN Return(f.self,
              [i \in DOMAIN f.ret |->
                  <<f.ret[i], (i - 1) * duration, i * duration,
                    f.self.tasks[f.ret[i]].priority,
                    f.self.tasks[f.ret[i]].status>>])

\* get_statistics of PearceKellyScheduler: it calls compute_ready_tasks; the
\* value is <<total_tasks, ready_tasks, total_edges>>
PK_get_statistics(self) ==
    Return(PK_compute_ready_tasks(self).self,
           <<Cardinality(DOMAIN self.tasks), Cardinality(PK_ready_names(self)),
             Cardinality({e \in (DOMAIN self.adj) \X (DOMAIN self.adj) :
                             e[2] \in self.adj[e[1]]})>>)

\* get_statistics of PearceKellySchedulerOptimized: the fields are read, the
\* value is <<total_tasks, ready_tasks, total_dependencies>>
Opt_get_statistics(self) ==
    Return(self,
           <<Cardinality(DOMAIN self.tasks),
             IF self.ready_valid THEN Cardinality(self.ready_set) ELSE 0,
             Cardinality({e \in (DOMAIN self.adj) \X (DOMAIN self.adj) :
                             e[2] \in self.adj[e[1]]})>>)

----------------------------------------------------------------------------
(* The caller *)

\* The constructor arguments the caller may choose
MaxDepth == 2

Configs ==
    {[enable_priority_inheritance |-> TRUE, priority_inheritance_depth |-> d] :
        d \in 1..MaxDepth}
    \cup {[enable_priority_inheritance |-> FALSE,
           priority_inheritance_depth |-> MaxDepth]}

PK == "PearceKellyScheduler"
Opt == "PearceKellySchedulerOptimized"

Call(op, args, f) ==
    [op |-> op, args |-> args, exc |-> f.exc, ret |-> ToString(f.ret)]

\* The default configuration: inheritance on, to the greatest depth
DefaultConfig ==
    [enable_priority_inheritance |-> TRUE,
     priority_inheritance_depth |-> MaxDepth]

\* The default configuration and the one with inheritance off
OnOffConfigs == {cfg \in Configs : cfg.priority_inheritance_depth = MaxDepth}

\* The outcome of a call, as the caller records it
Outcome(f) == [self |-> f.self, exc |-> f.exc, ret |-> ToString(f.ret)]

\* No second scheduler is driven
NoTwin == Outcome(Return(<<>>, NoRet))

InitWith(impls, cfgs) ==
    /\ impl \in impls
    /\ \E cfg \in cfgs : pk = PK_init(cfg) /\ opt = Opt_init(cfg)
    /\ now = 0
    /\ last = Call("__init__", <<>>, Return(pk, NoRet))
    /\ calls = 0
    /\ chain = TRUE
    /\ twin = NoTwin

(* Calls on a PearceKellyScheduler *)

PKDo(op, args, f) ==
    /\ impl = PK
    /\ calls < MaxCalls
    /\ calls' = calls + 1
    /\ pk' = f.self
    /\ last' = Call(op, args, f)
    /\ chain' = FALSE
    /\ UNCHANGED <<impl, opt, now, twin>>

PKRegisterTask ==
    \E task \in TaskPool :
        PKDo("register_task", <<task.name>>, PK_register_task(pk, task))

PKAddDependency ==
    \E source \in DOMAIN pk.tasks, dest \in DOMAIN pk.tasks :
        \E f \in PK_add_dependency(pk, source, dest) :
            PKDo("add_dependency", <<source, dest>>, f)

PKRemoveDependency ==
    \E source \in DOMAIN pk.tasks, dest \in DOMAIN pk.tasks :
        PKDo("remove_dependency", <<source, dest>>,
             PK_remove_dependency(pk, source, dest))

PKGetIndegree ==
    \E task_name \in DOMAIN pk.tasks :
        PKDo("get_indegree", <<task_name>>,
             IF task_name \notin DOMAIN pk.tasks THEN Raise(pk, "KeyError")
             ELSE Return(PK_get_indegree(pk, task_name),
                         PK_indegree(pk, task_name)))

PKComputeEffectivePriority ==
    \E task_name \in DOMAIN pk.tasks :
        PKDo("compute_effective_priority", <<task_name>>,
             IF task_name \notin DOMAIN pk.tasks THEN Raise(pk, "KeyError")
             ELSE Return(pk, PK_compute_effective_priority(pk, task_name)))

PKComputeReadyTasks ==
    PKDo("compute_ready_tasks", <<>>, PK_compute_ready_tasks(pk))

PKApproveHumanGate ==
    PKDo("approve_human_gate(GateId)", <<>>,
         Return(approve_human_gate(pk, GateId), NoRet))

PKRevokeHumanGate ==
    PKDo("revoke_human_gate(GateId)", <<>>,
         Return(revoke_human_gate(pk, GateId), NoRet))

\* The caller marks a registered task IN_PROGRESS or CLOSED (task.status is
\* written from outside the scheduler)
PKMarkStatus ==
    \E task_name \in DOMAIN pk.tasks, status \in {IN_PROGRESS, CLOSED} :
        /\ pk.tasks[task_name].status # status
        /\ PKDo("task.status = " \o status, <<task_name>>,
                Return([pk EXCEPT !.tasks[task_name].status = status], NoRet))

(* Calls on a PearceKellySchedulerOptimized *)

\* The tasks of the chain that are not CLOSED
ChainOpen(self) == {n \in DOMAIN self.tasks : self.tasks[n].status # CLOSED}

\* The edges T1 -> T2 -> ... of the chain that are present
ChainEdges(self) ==
    {i \in DOMAIN self.tasks : i + 1 \in DOMAIN self.tasks
                               /\ i + 1 \in self.adj[i]}

\* All the edges of a chain of at least three tasks are present
ChainBuilt(self) ==
    /\ Cardinality(DOMAIN self.tasks) >= 3
    /\ ChainEdges(self) = DOMAIN self.tasks \ {Cardinality(DOMAIN self.tasks)}

\* The call is the next one of the linear-chain scenario: ungated tasks are
\* registered, then the edges are added head to tail, then the ready tasks
\* are queried and the first task that is not CLOSED is completed.
ChainStep(self, op, args) ==
    CASE op = "register_task" ->
            /\ args[1] \notin DOMAIN self.tasks
            /\ ChainEdges(self) = {}
       [] op = "add_dependency" ->
            /\ DOMAIN self.tasks = 1..Cardinality(DOMAIN self.tasks)
            /\ Cardinality(DOMAIN self.tasks) >= 3
            /\ args[1] < Cardinality(DOMAIN self.tasks)
            /\ args[2] = args[1] + 1
            /\ ChainEdges(self) = 1..(args[1] - 1)
       [] op = "compute_ready_tasks" -> ChainBuilt(self)
       [] op = "mark_completed" ->
            /\ ChainBuilt(self)
            /\ ChainOpen(self) # {}
            /\ \A n \in ChainOpen(self) : args[1] <= n
       [] OTHER -> FALSE

OptDo(op, args, f, scenario) ==
    /\ impl = Opt
    /\ calls < MaxCalls
    /\ calls' = calls + 1
    /\ opt' = f.self
    /\ last' = Call(op, args, f)
    /\ chain' = (chain /\ scenario /\ ChainStep(opt, op, args))
    /\ UNCHANGED <<impl, pk, now, twin>>

OptRegisterTask ==
    \E task \in TaskPool :
        OptDo("register_task", <<task.name>>, Opt_register_task(opt, task),
              task.await_type = None)

OptAddDependency ==
    \E source \in DOMAIN opt.tasks, dest \in DOMAIN opt.tasks :
        \E f \in Opt_add_dependency(opt, source, dest) :
            OptDo("add_dependency", <<source, dest>>, f, TRUE)

OptRemoveDependency ==
    \E source \in DOMAIN opt.tasks, dest \in DOMAIN opt.tasks :
        OptDo("remove_dependency", <<source, dest>>,
              Opt_remove_dependency(opt, source, dest), FALSE)

OptMarkCompleted ==
    \E task_name \in DOMAIN opt.tasks :
        \E f \in Opt_mark_completed(opt, task_name) :
            OptDo("mark_completed", <<task_name>>, f, TRUE)

OptGetIndegree ==
    \E task_name \in DOMAIN opt.tasks :
        OptDo("get_indegree", <<task_name>>,
              Return(Opt_get_indegree(opt, task_name),
                     Opt_indegree(opt, task_name)), FALSE)

OptComputeEffectivePriority ==
    \E task_name \in DOMAIN opt.tasks :
        OptDo("compute_effective_priority", <<task_name>>,
              Return(Opt_compute_effective_priority(opt, task_name),
                     Opt_effective_priority(opt, task_name)), FALSE)

OptComputeReadyTasks ==
    OptDo("compute_ready_tasks", <<>>, Opt_compute_ready_tasks(opt), TRUE)

OptApproveHumanGate ==
    OptDo("approve_human_gate(GateId)", <<>>,
          Return(approve_human_gate(opt, GateId), NoRet), FALSE)

OptRevokeHumanGate ==
    OptDo("revoke_human_gate(GateId)", <<>>,
          Return(revoke_human_gate(opt, GateId), NoRet), FALSE)

\* The caller marks a registered task IN_PROGRESS or CLOSED
OptMarkStatus ==
    \E task_name \in DOMAIN opt.tasks, status \in {IN_PROGRESS, CLOSED} :
        /\ opt.tasks[task_name].status # status
        /\ OptDo("task.status = " \o status, <<task_name>>,
                 Return([opt EXCEPT !.tasks[task_name].status = status],
                        NoRet), FALSE)

\* The calls on a PearceKellyScheduler and its gate evaluator
NextPK ==
    \/ PKRegisterTask \/ PKAddDependency \/ PKRemoveDependency
    \/ PKGetIndegree \/ PKComputeEffectivePriority \/ PKComputeReadyTasks
    \/ PKApproveHumanGate \/ PKRevokeHumanGate

\* The calls on a PearceKellySchedulerOptimized and its gate evaluator
NextOpt ==
    \/ OptRegisterTask \/ OptAddDependency \/ OptRemoveDependency
    \/ OptMarkCompleted
    \/ OptGetIndegree \/ OptComputeEffectivePriority \/ OptComputeReadyTasks
    \/ OptApproveHumanGate \/ OptRevokeHumanGate

\* A scheduler of either class
Next == NextPK \/ NextOpt

\* The same, and the statuses the caller writes into the task records
NextExt == Next \/ PKMarkStatus \/ OptMarkStatus

\* A PearceKellyScheduler driven through its methods
SpecPK == InitWith({PK}, {DefaultConfig}) /\ [][NextPK]_vars

\* A PearceKellySchedulerOptimized driven through its methods
SpecOpt == InitWith({Opt}, {DefaultConfig}) /\ [][NextOpt]_vars

\* A scheduler of either class driven through its methods
Spec == InitWith({PK, Opt}, {DefaultConfig}) /\ [][Next]_vars

\* A PearceKellyScheduler under any configuration, its tasks' statuses also
\* written by the caller
SpecPKExt == InitWith({PK}, Configs) /\ [][NextPK \/ PKMarkStatus]_vars

\* A scheduler of either class, inheritance on or off
SpecOnOff == InitWith({PK, Opt}, OnOffConfigs) /\ [][Next]_vars

(* Tasks whose gate cannot be evaluated *)

\* Tasks behind a gate that GateEvaluator.is_open rejects: a timer whose id
\* is no ISO timestamp, and a gate kind outside the gate map
MalformedPool ==
    {Task(2, PriorityOf(2), "timer", "soon"),
     Task(3, PriorityOf(3), "webhook", GateId)}

PKRegisterMalformed ==
    \E task \in MalformedPool :
        PKDo("register_task", <<task.name>>, PK_register_task(pk, task))

OptRegisterMalformed ==
    \E task \in MalformedPool :
        OptDo("register_task", <<task.name>>, Opt_register_task(opt, task),
              FALSE)

\* The calls that edit the graph, the tasks well formed or not
NextGate ==
    \/ PKRegisterTask \/ PKRegisterMalformed
    \/ PKAddDependency \/ PKRemoveDependency
    \/ OptRegisterTask \/ OptRegisterMalformed
    \/ OptAddDependency \/ OptRemoveDependency

\* A scheduler of either class, its graph edited, some gates malformed
SpecGate == InitWith({PK, Opt}, {DefaultConfig}) /\ [][NextGate]_vars

(* Calls that name a task that is not registered *)

\* The pairs of names of which one at least is not registered
UnknownPairs(self) ==
    {p \in Names \X Names :
        p[1] \notin DOMAIN self.tasks \/ p[2] \notin DOMAIN self.tasks}

PKAddDependencyUnknown ==
    \E p \in UnknownPairs(pk) :
        \E f \in PK_add_dependency(pk, p[1], p[2]) :
            PKDo("add_dependency", p, f)

PKRemoveDependencyUnknown ==
    \E p \in UnknownPairs(pk) :
        PKDo("remove_dependency", p, PK_remove_dependency(pk, p[1], p[2]))

PKGetIndegreeUnknown ==
    \E task_name \in Names \ DOMAIN pk.tasks :
        PKDo("get_indegree", <<task_name>>,
             IF task_name \notin DOMAIN pk.tasks THEN Raise(pk, "KeyError")
             ELSE Return(PK_get_indegree(pk, task_name),
                         PK_indegree(pk, task_name)))

\* self.tasks[task_name] raises KeyError
PKComputeEffectivePriorityUnknown ==
    \E task_name \in Names \ DOMAIN pk.tasks :
        PKDo("compute_effective_priority", <<task_name>>,
             IF task_name \notin DOMAIN pk.tasks THEN Raise(pk, "KeyError")
             ELSE Return(pk, PK_compute_effective_priority(pk, task_name)))

OptAddDependencyUnknown ==
    \E p \in UnknownPairs(opt) :
        \E f \in Opt_add_dependency(opt, p[1], p[2]) :
            OptDo("add_dependency", p, f, FALSE)

OptRemoveDependencyUnknown ==
    \E p \in UnknownPairs(opt) :
        OptDo("remove_dependency", p,
              Opt_remove_dependency(opt, p[1], p[2]), FALSE)

OptMarkCompletedUnknown ==
    \E task_name \in Names \ DOMAIN opt.tasks :
        \E f \in Opt_mark_completed(opt, task_name) :
            OptDo("mark_completed", <<task_name>>, f, FALSE)

OptGetIndegreeUnknown ==
    \E task_name \in Names \ DOMAIN opt.tasks :
        OptDo("get_indegree", <<task_name>>,
              Return(Opt_get_indegree(opt, task_name),
                     Opt_indegree(opt, task_name)), FALSE)

\* The name is in no cache: self.tasks[task_name] raises KeyError
OptComputeEffectivePriorityUnknown ==
    \E task_name \in Names \ DOMAIN opt.tasks :
        OptDo("compute_effective_priority", <<task_name>>,
              IF task_name \notin opt.priority_valid
                 /\ task_name \notin DOMAIN opt.tasks
              THEN Raise(opt, "KeyError")
              ELSE Return(Opt_compute_effective_priority(opt, task_name),
                          Opt_effective_priority(opt, task_name)), FALSE)

\* Tasks are registered and linked, and calls name unregistered tasks
NextUnknown ==
    \/ PKRegisterTask \/ PKAddDependency
    \/ PKAddDependencyUnknown \/ PKRemoveDependencyUnknown
    \/ PKGetIndegreeUnknown \/ PKComputeEffectivePriorityUnknown
    \/ OptRegisterTask \/ OptAddDependency
    \/ OptAddDependencyUnknown \/ OptRemoveDependencyUnknown
    \/ OptMarkCompletedUnknown
    \/ OptGetIndegreeUnknown \/ OptComputeEffectivePriorityUnknown

\* A scheduler of either class, called with registered and unregistered names
SpecUnknown == InitWith({PK, Opt}, {DefaultConfig}) /\ [][NextUnknown]_vars

(* Two schedulers driven by the same calls *)

\* A PearceKellyScheduler and, next to it, a PearceKellySchedulerOptimized
Lockstep == "PearceKellyScheduler, PearceKellySchedulerOptimized"

\* Two instances of one class
TwinPK == "PearceKellyScheduler, PearceKellyScheduler"
TwinOpt == "PearceKellySchedulerOptimized, PearceKellySchedulerOptimized"

\* The first scheduler is pk, or opt when both are of the optimized class;
\* the second is twin.self.  The optimized scheduler that runs next to a
\* PearceKellyScheduler is built with ready_cache_ttl = 0.
InitPair(impls) ==
    /\ impl \in impls
    /\ pk = PK_init(DefaultConfig)
    /\ opt = Opt_init(DefaultConfig)
    /\ twin = Outcome(Return(
                 CASE impl = Lockstep ->
                         [Opt_init(DefaultConfig) EXCEPT !.ready_cache_ttl = 0]
                   [] impl = TwinPK -> pk
                   [] OTHER -> opt, NoRet))
    /\ now = 0
    /\ last = Call("__init__", <<>>, Return(pk, NoRet))
    /\ calls = 0
    /\ chain = TRUE

\* The call op(args) is made on both schedulers: f1 and f2 are its outcomes
PairDo(mode, op, args, f1, f2) ==
    /\ impl = mode
    /\ calls < MaxCalls
    /\ calls' = calls + 1
    /\ IF mode = TwinOpt
       THEN opt' = f1.self /\ pk' = pk
       ELSE pk' = f1.self /\ opt' = opt
    /\ last' = Call(op, args, f1)
    /\ twin' = Outcome(f2)
    /\ chain' = FALSE
    /\ UNCHANGED <<impl, now>>

LockRegisterTask ==
    /\ impl = Lockstep
    /\ \E task \in TaskPool :
           PairDo(Lockstep, "register_task", <<task.name>>,
                  PK_register_task(pk, task), Opt_register_task(twin.self, task))

LockAddDependency ==
    /\ impl = Lockstep
    /\ \E source \in DOMAIN pk.tasks, dest \in DOMAIN pk.tasks :
           \E f1 \in PK_add_dependency(pk, source, dest),
              f2 \in Opt_add_dependency(twin.self, source, dest) :
               PairDo(Lockstep, "add_dependency", <<source, dest>>, f1, f2)

LockRemoveDependency ==
    /\ impl = Lockstep
    /\ \E source \in DOMAIN pk.tasks, dest \in DOMAIN pk.tasks :
           PairDo(Lockstep, "remove_dependency", <<source, dest>>,
                  PK_remove_dependency(pk, source, dest),
                  Opt_remove_dependency(twin.self, source, dest))

LockComputeEffectivePriority ==
    /\ impl = Lockstep
    /\ \E task_name \in DOMAIN pk.tasks :
           PairDo(Lockstep, "compute_effective_priority", <<task_name>>,
                  Return(pk, PK_compute_effective_priority(pk, task_name)),
                  Return(Opt_compute_effective_priority(twin.self, task_name),
                         Opt_effective_priority(twin.self, task_name)))

LockComputeReadyTasks ==
    /\ impl = Lockstep
    /\ \E f2 \in Opt_compute_ready_lists(twin.self) :
           PairDo(Lockstep, "compute_ready_tasks", <<>>,
                  PK_compute_ready_list(pk), f2)

NextLock ==
    \/ LockRegisterTask \/ LockAddDependency \/ LockRemoveDependency
    \/ LockComputeEffectivePriority \/ LockComputeReadyTasks

\* The two classes driven by the same calls
SpecLock == InitPair({Lockstep}) /\ [][NextLock]_vars

\* The tasks registered with two instances of one class: Task(name), of the
\* default priority
TwinPool == {Task(n, MEDIUM, None, None) : n \in Names}

TwinPKRegisterTask ==
    /\ impl = TwinPK
    /\ \E task \in TwinPool :
           PairDo(TwinPK, "register_task", <<task.name>>,
                  PK_register_task(pk, task), PK_register_task(twin.self, task))

TwinPKAddDependency ==
    /\ impl = TwinPK
    /\ \E source \in DOMAIN pk.tasks, dest \in DOMAIN pk.tasks :
           \E f1 \in PK_add_dependency(pk, source, dest),
              f2 \in PK_add_dependency(twin.self, source, dest) :
               PairDo(TwinPK, "add_dependency", <<source, dest>>, f1, f2)

TwinPKRemoveDependency ==
    /\ impl = TwinPK
    /\ \E source \in DOMAIN pk.tasks, dest \in DOMAIN pk.tasks :
           PairDo(TwinPK, "remove_dependency", <<source, dest>>,
                  PK_remove_dependency(pk, source, dest),
                  PK_remove_dependency(twin.self, source, dest))

TwinPKComputeReadyTasks ==
    /\ impl = TwinPK
    /\ PairDo(TwinPK, "compute_ready_tasks", <<>>,
              PK_compute_ready_list(pk), PK_compute_ready_list(twin.self))

TwinPKTopologicalSort ==
    /\ impl = TwinPK
    /\ PairDo(TwinPK, "topological_sort", <<>>,
              PK_topological_sort(pk), PK_topological_sort(twin.self))

TwinPKCalculateSchedule ==
    /\ impl = TwinPK
    /\ PairDo(TwinPK, "calculate_schedule", <<>>,
              PK_calculate_schedule(pk), PK_calculate_schedule(twin.self))

TwinOptRegisterTask ==
    /\ impl = TwinOpt
    /\ \E task \in TwinPool :
           PairDo(TwinOpt, "register_task", <<task.name>>,
                  Opt_register_task(opt, task),
                  Opt_register_task(twin.self, task))

TwinOptAddDependency ==
    /\ impl = TwinOpt
    /\ \E source \in DOMAIN opt.tasks, dest \in DOMAIN opt.tasks :
           \E f1 \in Opt_add_dependency(opt, source, dest),
              f2 \in Opt_add_dependency(twin.self, source, dest) :
               PairDo(TwinOpt, "add_dependency", <<source, dest>>, f1, f2)

TwinOptRemoveDependency ==
    /\ impl = TwinOpt
    /\ \E source \in DOMAIN opt.tasks, dest \in DOMAIN opt.tasks :
           PairDo(TwinOpt, "remove_dependency", <<source, dest>>,
                  Opt_remove_dependency(opt, source, dest),
                  Opt_remove_dependency(twin.self, source, dest))

TwinOptComputeReadyTasks ==
    /\ impl = TwinOpt
    /\ \E f1 \in Opt_compute_ready_lists(opt),
          f2 \in Opt_compute_ready_lists(twin.self) :
           PairDo(TwinOpt, "compute_ready_tasks", <<>>, f1, f2)

TwinOptTopologicalSort ==
    /\ impl = TwinOpt
    /\ PairDo(TwinOpt, "topological_sort", <<>>,
              Opt_topological_sort(opt), Opt_topological_sort(twin.self))

TwinOptCalculateSchedule ==
    /\ impl = TwinOpt
    /\ PairDo(TwinOpt, "calculate_schedule", <<>>,
              Opt_calculate_schedule(opt), Opt_calculate_schedule(twin.self))

NextTwin ==
    \/ TwinPKRegisterTask \/ TwinPKAddDependency \/ TwinPKRemoveDependency
    \/ TwinPKComputeReadyTasks \/ TwinPKTopologicalSort
    \/ TwinPKCalculateSchedule
    \/ TwinOptRegisterTask \/ TwinOptAddDependency
    \/ TwinOptRemoveDependency
    \/ TwinOptComputeReadyTasks \/ TwinOptTopologicalSort
    \/ TwinOptCalculateSchedule

\* Two instances of one class driven by the same calls, the clock fixed
SpecTwin == InitPair({TwinPK, TwinOpt}) /\ [][NextTwin]_vars

(* The queries, with the lists they return *)

PKComputeReadyList ==
    PKDo("compute_ready_tasks", <<>>, PK_compute_ready_list(pk))

PKTopologicalSort ==
    PKDo("topological_sort", <<>>, PK_topological_sort(pk))

PKCalculateSchedule ==
    PKDo("calculate_schedule", <<>>, PK_calculate_schedule(pk))

PKGetStatistics ==
    PKDo("get_statistics", <<>>, PK_get_statistics(pk))

OptComputeReadyList ==
    /\ impl = Opt
    /\ \E f \in Opt_compute_ready_lists(opt) :
           OptDo("compute_ready_tasks", <<>>, f, FALSE)

OptTopologicalSort ==
    OptDo("topological_sort", <<>>, Opt_topological_sort(opt), FALSE)

OptCalculateSchedule ==
    OptDo("calculate_schedule", <<>>, Opt_calculate_schedule(opt), FALSE)

OptGetStatistics ==
    OptDo("get_statistics", <<>>, Opt_get_statistics(opt), FALSE)

\* The calls that edit the graph and the queries
NextQuery ==
    \/ PKRegisterTask \/ PKAddDependency \/ PKRemoveDependency
    \/ PKGetIndegree \/ PKComputeEffectivePriority \/ PKComputeReadyList
    \/ PKTopologicalSort \/ PKCalculateSchedule \/ PKGetStatistics
    \/ OptRegisterTask \/ OptAddDependency \/ OptRemoveDependency
    \/ OptMarkCompleted
    \/ OptGetIndegree \/ OptComputeEffectivePriority \/ OptComputeReadyList
    \/ OptTopologicalSort \/ OptCalculateSchedule \/ OptGetStatistics

\* A scheduler of either class, edited and queried, the clock fixed
SpecQuery == InitWith({PK, Opt}, {DefaultConfig}) /\ [][NextQuery]_vars

(* Tasks that age *)

\* The last instant of the clock, the calls made while it runs, and the
\* constructor arguments for aging the caller may choose: a threshold of one
\* second, a boost of 0 to MaxBoost levels
MaxClock == 2
MaxAgingCalls == 4
MaxBoost == 2

AgingConfigs ==
    {[enable_priority_inheritance |-> TRUE,
      priority_inheritance_depth |-> MaxDepth,
      aging_threshold |-> 1, aging_boost |-> b] : b \in 0..MaxBoost}

\* The tasks registered
AgingPool ==
    {Task(n, p, None, None) : n \in Names, p \in {CRITICAL, HIGH, BACKLOG}}

\* A second passes
Tick ==
    /\ now < MaxClock
    /\ now' = now + 1
    /\ UNCHANGED <<impl, pk, opt, last, calls, chain, twin>>

PKRegisterAging ==
    /\ calls < MaxAgingCalls
    /\ \E task \in AgingPool :
           PKDo("register_task", <<task.name>>, PK_register_task(pk, task))

PKAddDependencyAging == calls < MaxAgingCalls /\ PKAddDependency

PKComputeReadyListAging == calls < MaxAgingCalls /\ PKComputeReadyList

OptRegisterAging ==
    /\ calls < MaxAgingCalls
    /\ \E task \in AgingPool :
           OptDo("register_task", <<task.name>>, Opt_register_task(opt, task),
                 FALSE)

OptAddDependencyAging == calls < MaxAgingCalls /\ OptAddDependency

OptComputeReadyListAging == calls < MaxAgingCalls /\ OptComputeReadyList

\* Tasks are registered and linked as time passes, and the ready tasks asked
NextAging ==
    \/ Tick
    \/ PKRegisterAging \/ PKAddDependencyAging \/ PKComputeReadyListAging
    \/ OptRegisterAging \/ OptAddDependencyAging \/ OptComputeReadyListAging

\* A scheduler of either class, its tasks aging after one second
SpecAging == InitWith({PK, Opt}, AgingConfigs) /\ [][NextAging]_vars

(* Timer gates, as time passes *)

\* The tasks registered: every name ungated, or behind a timer that opens at
\* the instant 1 or 2
TimerPool ==
    {Task(n, PriorityOf(n), None, None) : n \in Names}
    \cup {Task(n, PriorityOf(n), "timer", t) : n \in Names, t \in {"t1", "t2"}}

PKRegisterTimer ==
    /\ calls < MaxAgingCalls
    /\ \E task \in TimerPool :
           PKDo("register_task", <<task.name>>, PK_register_task(pk, task))

PKRemoveDependencyTimer == calls < MaxAgingCalls /\ PKRemoveDependency

OptRegisterTimer ==
    /\ calls < MaxAgingCalls
    /\ \E task \in TimerPool :
           OptDo("register_task", <<task.name>>, Opt_register_task(opt, task),
                 FALSE)

OptRemoveDependencyTimer == calls < MaxAgingCalls /\ OptRemoveDependency

\* Tasks behind timers are registered and linked as time passes, and the
\* ready tasks asked
NextTimer ==
    \/ Tick
    \/ PKRegisterTimer \/ PKAddDependencyAging \/ PKRemoveDependencyTimer
    \/ PKComputeReadyListAging
    \/ OptRegisterTimer \/ OptAddDependencyAging \/ OptRemoveDependencyTimer
    \/ OptComputeReadyListAging

\* A scheduler of either class whose tasks wait for timers
SpecTimer == InitWith({PK, Opt}, {DefaultConfig}) /\ [][NextTimer]_vars

SpecTimerPK == InitWith({PK}, {DefaultConfig}) /\ [][NextTimer]_vars

----------------------------------------------------------------------------
(* Properties *)

\* The tasks reached from the tasks of S along one or more edges of adj
RECURSIVE Reached(_, _, _)
Reached(adj, S, seen) ==
    LET next == UNION {adj[u] : u \in S} \ seen
    IN IF next = {} THEN seen ELSE Reached(adj, next, seen \cup next)

Descendants(adj, u) == Reached(adj, {u}, {})

\* C1 (P1, topological order): in a PearceKellyScheduler driven through
\* register_task, add_dependency and remove_dependency, every edge u -> v of
\* adj whose endpoints are both not CLOSED has ranks[u] < ranks[v].
C1_TopologicalOrder ==
    impl = PK =>
        \A u \in DOMAIN pk.adj : \A v \in pk.adj[u] :
            (pk.tasks[u].status # CLOSED /\ pk.tasks[v].status # CLOSED)
                => pk.ranks[u] < pk.ranks[v]

\* C2 (acyclicity): in every reachable state of a PearceKellyScheduler no task
\* is reached from itself along the edges of adj.
C2_Acyclic ==
    impl = PK => \A u \in DOMAIN pk.adj : u \notin Descendants(pk.adj, u)

\* C3 (P2, cycle safety): an add_dependency call that raises the cycle error
\* leaves the scheduler (adj, preds, ranks, the tasks' statuses and every
\* cache) as it was before the call, in both classes.
C3_CycleErrorLeavesState ==
    [][(last'.op = "add_dependency" /\ last'.exc = "ValueError: cycle")
          => (pk' = pk /\ opt' = opt)]_vars

\* An add_dependency call has raised the cycle error on a scheduler whose
\* caches hold entries
C3_Witness ==
    /\ impl = Opt
    /\ last.op = "add_dependency"
    /\ last.exc = "ValueError: cycle"
    /\ opt.indegree_valid # {}
    /\ opt.priority_valid # {}
    /\ opt.ready_set # {}

\* The gate of the task is open or absent
gate_open(self, task) ==
    task.await_type = None \/ is_open(self, task.await_type, task.await_id)

\* The number of predecessors of v whose status is OPEN, counted over adj
FreshIndegree(self, v) ==
    Cardinality({u \in DOMAIN self.tasks :
                    v \in self.adj[u] /\ self.tasks[u].status = OPEN})

\* The ready tasks computed from scratch
ReadyFromScratch(self) ==
    {v \in DOMAIN self.tasks :
        /\ self.tasks[v].status = OPEN
        /\ FreshIndegree(self, v) = 0
        /\ gate_open(self, self.tasks[v])}

\* C4 (P3, ready correctness): in a PearceKellySchedulerOptimized driven
\* through register_task, add_dependency, remove_dependency, mark_completed
\* and the approval and revocation of human gates, compute_ready_tasks
\* returns the tasks that are OPEN, have no OPEN predecessor and whose gate
\* is open or absent.
C4_ReadyCorrect ==
    impl = Opt => Opt_compute_ready_tasks(opt).ret = ReadyFromScratch(opt)

\* C5 (linear chain): once ungated tasks T1..Tn, n >= 3, are registered and
\* the edges T1 -> T2 -> ... -> Tn added head to tail, compute_ready_tasks
\* returns the first task of the chain that is not CLOSED and no other, before
\* any completion and after each mark_completed of the first such task.
C5_ChainReady ==
    (impl = Opt /\ chain /\ ChainBuilt(opt)) =>
        Opt_compute_ready_tasks(opt).ret =
            {n \in ChainOpen(opt) : \A m \in ChainOpen(opt) : n <= m}

\* C6 (completion): after mark_completed(v), v is CLOSED, and a successor w
\* of v that is itself neither CLOSED nor IN_PROGRESS is returned by the next
\* compute_ready_tasks call exactly when all its predecessors are CLOSED and
\* its gate is open or absent.
C6_SuccessorsReevaluated ==
    (impl = Opt /\ last.op = "mark_completed" /\ last.exc = "none") =>
        LET v == last.args[1]
        IN /\ opt.tasks[v].status = CLOSED
           /\ \A w \in opt.adj[v] :
                 opt.tasks[w].status \in {OPEN, BLOCKED} =>
                    (w \in Opt_compute_ready_tasks(opt).ret
                       <=> /\ \A u \in opt.preds[w] :
                                 opt.tasks[u].status = CLOSED
                           /\ gate_open(opt, opt.tasks[w]))

\* C7 (P7, in-degree cache coherence): after every call, get_indegree(v) is
\* the number of predecessors of v whose status is OPEN, for every registered
\* v, in both classes.
C7_IndegreeCoherent ==
    /\ \A v \in DOMAIN pk.tasks : PK_indegree(pk, v) = FreshIndegree(pk, v)
    /\ \A v \in DOMAIN opt.tasks : Opt_indegree(opt, v) = FreshIndegree(opt, v)

\* C8 (priority cache): in a PearceKellySchedulerOptimized, once an
\* add_dependency, remove_dependency or mark_completed call has returned,
\* compute_effective_priority(v) is the value the breadth-first computation
\* gives without the cache, for every registered v.
C8_PriorityCacheCoherent ==
    (/\ impl = Opt
     /\ last.op \in {"add_dependency", "remove_dependency", "mark_completed"}
     /\ last.exc = "none") =>
        \A v \in DOMAIN opt.tasks :
            Opt_effective_priority(opt, v) = Opt_uncached_priority(opt, v)

\* The tasks at the end of a path from v of at least one and at most k edges
\* whose intermediate tasks are all OPEN or BLOCKED
RECURSIVE Within(_, _, _)
Within(self, v, k) ==
    IF k = 0 THEN {}
    ELSE self.adj[v] \cup
         UNION {Within(self, x, k - 1) :
                  x \in {y \in self.adj[v] :
                            self.tasks[y].status \in {OPEN, BLOCKED}}}

\* The least element of a nonempty set of integers
Least(S) == CHOOSE x \in S : \A y \in S : x <= y

\* C9 (inheritance): with inheritance enabled,
\* PearceKellyScheduler.compute_effective_priority(v) is the least of
\* v.priority and the priorities of the tasks w # v at the end of a path from
\* v of at most priority_inheritance_depth edges whose intermediate tasks are
\* all OPEN or BLOCKED, whatever the status of w.
C9_InheritedMinimum ==
    (impl = PK /\ pk.enable_priority_inheritance) =>
        \A v \in DOMAIN pk.tasks :
            PK_compute_effective_priority(pk, v) =
                Least({pk.tasks[v].priority} \cup
                      {pk.tasks[w].priority :
                          w \in Within(pk, v, pk.priority_inheritance_depth)
                                   \ {v}})

\* A task inherits the priority of a dependent that is CLOSED or IN_PROGRESS
\* and, the depth allowing it, not the more urgent priority of a task that
\* lies beyond that dependent
C9_Witness ==
    /\ impl = PK
    /\ pk.enable_priority_inheritance
    /\ pk.priority_inheritance_depth = MaxDepth
    /\ \E v \in DOMAIN pk.tasks, w \in DOMAIN pk.tasks :
          /\ w \in pk.adj[v]
          /\ pk.tasks[w].status \in {CLOSED, IN_PROGRESS}
          /\ PK_compute_effective_priority(pk, v) = pk.tasks[w].priority
          /\ pk.tasks[w].priority < pk.tasks[v].priority
          /\ \E x \in pk.adj[w] : pk.tasks[x].priority < pk.tasks[w].priority

\* C10 (P4, monotonicity): in every reachable state of either scheduler,
\* compute_effective_priority(v) is at most v.priority for every registered
\* v, and is v.priority when inheritance is disabled.
C10_PriorityMonotone ==
    /\ \A v \in DOMAIN pk.tasks :
          /\ PK_compute_effective_priority(pk, v) <= pk.tasks[v].priority
          /\ ~pk.enable_priority_inheritance =>
                PK_compute_effective_priority(pk, v) = pk.tasks[v].priority
    /\ \A v \in DOMAIN opt.tasks :
          /\ Opt_effective_priority(opt, v) <= opt.tasks[v].priority
          /\ ~opt.enable_priority_inheritance =>
                Opt_effective_priority(opt, v) = opt.tasks[v].priority

\* With inheritance disabled, compute_effective_priority has returned the
\* priority of a task that has a more urgent dependent
C10_Witness ==
    /\ impl = Opt
    /\ ~opt.enable_priority_inheritance
    /\ last.op = "compute_effective_priority"
    /\ last.exc = "none"
    /\ LET v == last.args[1]
       IN /\ last.ret = ToString(opt.tasks[v].priority)
          /\ \E w \in opt.adj[v] :
                opt.tasks[w].priority < opt.tasks[v].priority

\* The scheduler object of the class the caller instantiated, restricted to
\* the fields the two classes share
sched ==
    LET o == IF impl = PK THEN pk ELSE opt
    IN [tasks |-> o.tasks, adj |-> o.adj, preds |-> o.preds,
        ranks |-> o.ranks]

\* C11 (inheritance under edge edits): in a PearceKellySchedulerOptimized,
\* for every task v, compute_effective_priority(v) right after an
\* add_dependency call that returned is at most its value right before the
\* call, and right after a remove_dependency call it is at least its value
\* right before the call.
C11_EdgeEditsMonotone ==
    [][(impl = Opt /\ last'.exc = "none") =>
          \A v \in DOMAIN opt.tasks :
             /\ last'.op = "add_dependency" =>
                   Opt_effective_priority(opt', v)
                      <= Opt_effective_priority(opt, v)
             /\ last'.op = "remove_dependency" =>
                   Opt_effective_priority(opt', v)
                      >= Opt_effective_priority(opt, v)]_vars

\* The tasks add_dependency(u, v) may reorder: the ancestors of u whose rank
\* is at least ranks[v] and the descendants of v whose rank is at most
\* ranks[u], u and v included
RECURSIVE AncestorsFrom(_, _, _)
AncestorsFrom(self, seen, lo) ==
    LET more == {n \in UNION {self.preds[c] : c \in seen} :
                    n \notin seen /\ self.ranks[n] >= lo}
    IN IF more = {} THEN seen ELSE AncestorsFrom(self, seen \cup more, lo)

RECURSIVE DescendantsFrom(_, _, _)
DescendantsFrom(self, seen, hi) ==
    LET more == {n \in UNION {self.adj[c] : c \in seen} :
                    n \notin seen /\ self.ranks[n] <= hi}
    IN IF more = {} THEN seen ELSE DescendantsFrom(self, seen \cup more, hi)

AffectedRegion(self, u, v) ==
    AncestorsFrom(self, {u}, self.ranks[v])
       \cup DescendantsFrom(self, {v}, self.ranks[u])

\* C14 (P8, rank locality): when add_dependency(u, v) inserts an edge with
\* ranks[u] >= ranks[v], every task outside the ancestors of u of rank at
\* least ranks[v] and the descendants of v of rank at most ranks[u] keeps
\* its rank, in both classes.
C14_RankLocality ==
    [][(/\ last'.op = "add_dependency"
        /\ last'.exc = "none"
        /\ last'.args[2] \notin sched.adj[last'.args[1]]
        /\ sched.ranks[last'.args[1]] >= sched.ranks[last'.args[2]]) =>
          \A t \in DOMAIN sched.ranks
                     \ AffectedRegion(sched, last'.args[1], last'.args[2]) :
              sched'.ranks[t] = sched.ranks[t]]_vars

\* C15 (P6, idempotent insertion): add_dependency(u, v) called when the edge
\* u -> v is present does not raise, returns True as the call that inserted
\* the edge did, and leaves the scheduler as it was, in both classes.
C15_IdempotentInsertion ==
    [][(/\ last'.op = "add_dependency"
        /\ last'.args[2] \in sched.adj[last'.args[1]]) =>
          /\ last'.exc = "none"
          /\ last'.ret = ToString(TRUE)
          /\ pk' = pk
          /\ opt' = opt]_vars

\* C16 (self-loops): add_dependency(x, x) on a registered task raises the
\* self-loop error and leaves the scheduler as it was, and no task is ever
\* its own successor, in both classes.
C16_NoSelfLoop ==
    /\ [](\A x \in DOMAIN sched.adj : x \notin sched.adj[x])
    /\ [][(last'.op = "add_dependency" /\ last'.args[1] = last'.args[2]) =>
             /\ last'.exc = "ValueError: self-loop"
             /\ pk' = pk
             /\ opt' = opt]_vars

\* C19: register_task with a name that is already registered raises the
\* duplicate-name error and leaves the whole object unchanged: the task
\* record, the edges, the ranks and the caches.
C19_DuplicateRegistration ==
    [][(/\ last'.op = "register_task"
        /\ last'.args[1] \in DOMAIN sched.tasks) =>
          /\ last'.exc = "ValueError: already registered"
          /\ pk' = pk
          /\ opt' = opt]_vars

\* A task with a dependent has been registered a second time
C19_Witness ==
    /\ last.op = "register_task"
    /\ last.exc = "ValueError: already registered"
    /\ sched.adj[last.args[1]] # {}

C17_GateErrorLeavesState ==
    [][last'.exc = "ValueError: gate" => pk' = pk /\ opt' = opt]_vars

\* C18: add_dependency, remove_dependency, mark_completed, get_indegree and
\* compute_effective_priority called with a name that is not registered
\* fail with a not-found error and leave the object unchanged: no adj, preds
\* or in-degree-cache entry is created for the name, in either class.
C18_UnknownNameRejected ==
    [][(/\ last'.op \in {"add_dependency", "remove_dependency",
                         "mark_completed", "get_indegree",
                         "compute_effective_priority"}
        /\ \E i \in DOMAIN last'.args :
              last'.args[i] \notin DOMAIN sched.tasks) =>
          /\ last'.exc \in {"KeyError", "ValueError: not found"}
          /\ pk' = pk
          /\ opt' = opt]_vars

\* The elements of a list
Elements(list) == {list[i] : i \in DOMAIN list}

\* C12: PearceKellySchedulerOptimized (ready_cache_ttl = 0) gives the
\* results of PearceKellyScheduler when both are driven by the same calls:
\* a call raises in both or in neither, and compute_ready_tasks returns the
\* same tasks with the same effective priorities in both.  (The list is
\* sorted by priority, then created_at: with the same tasks and priorities
\* the two lists differ at most in the order of tasks of equal priority
\* and equal created_at.)
C12_OptimizedAgrees ==
    impl = Lockstep =>
        /\ (last.exc = "none") <=> (twin.exc = "none")
        /\ (last.op = "compute_ready_tasks" /\ last.exc = "none") =>
              {<<e[3], e[1]>> : e \in Elements(PK_ready_list(pk))}
                 = {<<n, twin.self.priority_cache[n]>> :
                       n \in twin.self.ready_set}

\* C13: with the clock fixed, two instances of one class driven by the same
\* calls raise on the same calls and return the same compute_ready_tasks,
\* topological_sort and calculate_schedule results, in whatever order the
\* sets are iterated.
C13_Deterministic ==
    impl \in {TwinPK, TwinOpt} =>
        /\ last.exc = twin.exc
        /\ last.op \in {"compute_ready_tasks", "topological_sort",
                        "calculate_schedule"} => last.ret = twin.ret

\* The tasks of the scheduler whose status is CLOSED
Closed(self) == {v \in DOMAIN self.tasks : self.tasks[v].status = CLOSED}

\* compute_ready_tasks and get_indegree as the next call would answer them
ReadyNow ==
    IF impl = PK THEN PK_ready_names(pk) ELSE Opt_compute_ready_tasks(opt).ret

IndegreeNow(v) ==
    IF impl = PK THEN PK_indegree(pk, v) ELSE Opt_indegree(opt, v)

\* C21: CLOSED is terminal.  No call on the scheduler or its gate evaluator
\* changes the status of a CLOSED task; compute_ready_tasks does not return
\* a CLOSED task; and get_indegree of a task does not count its CLOSED
\* predecessors.
C21_ClosedTerminal ==
    /\ [](impl \in {PK, Opt} =>
            /\ ReadyNow \cap Closed(sched) = {}
            /\ \A w \in DOMAIN sched.tasks :
                  IndegreeNow(w) <=
                     Cardinality(sched.preds[w] \ Closed(sched)))
    /\ [][(impl \in {PK, Opt}
            /\ last'.op \notin {"task.status = " \o IN_PROGRESS,
                                "task.status = " \o CLOSED}) =>
             Closed(sched) \subseteq Closed(sched')]_vars

\* C22: a task behind a human gate that is otherwise ready (OPEN, with no
\* OPEN predecessor) is returned by the next compute_ready_tasks call
\* exactly when its gate is approved: not before the approval, from the
\* first call after approve_human_gate, and no more from the first call
\* after revoke_human_gate, in both classes.
C22_HumanGateFollowed ==
    impl \in {PK, Opt} =>
        \A v \in DOMAIN sched.tasks :
            (/\ sched.tasks[v].await_type = "human"
             /\ sched.tasks[v].status = OPEN
             /\ FreshIndegree(sched, v) = 0) =>
                (v \in ReadyNow <=>
                    sched.tasks[v].await_id \in
                        (IF impl = PK THEN pk ELSE opt).approvals)

\* The names of the queries
Queries ==
    {"compute_ready_tasks", "get_indegree", "compute_effective_priority",
     "topological_sort", "calculate_schedule", "get_statistics"}

\* The lists a compute_ready_tasks call made now may return, as the caller
\* records them
ReadyListsNow ==
    IF impl = PK THEN {ToString(PK_ready_list(pk))}
    ELSE {ToString(f.ret) : f \in Opt_compute_ready_lists(opt)}

ReadyListValuesNow ==
    IF impl = PK THEN {PK_ready_list(pk)}
    ELSE {f.ret : f \in {g \in Opt_compute_ready_lists(opt) : g.exc = "none"}}

\* C24: the list compute_ready_tasks returns is sorted by effective priority
\* after aging, then created_at: of two entries the earlier one has the
\* smaller priority value, or the same value and a created_at that is not
\* later.
C24_ReadySorted ==
    \A list \in ReadyListValuesNow :
        \A i \in DOMAIN list, j \in DOMAIN list :
            i < j =>
                \/ list[i][1] < list[j][1]
                \/ list[i][1] = list[j][1] /\ list[i][2] <= list[j][2]

\* compute_ready_tasks has returned a list in which a younger task comes
\* before an older one of lower priority, and an older task before a
\* younger one of the same priority
C24_Witness ==
    /\ last.op = "compute_ready_tasks"
    /\ last.exc = "none"
    /\ \E list \in ReadyListValuesNow :
          /\ last.ret = ToString(list)
          /\ Len(list) = 3
          /\ \E i \in 1..2 : /\ list[i][1] < list[i + 1][1]
                             /\ list[i][2] > list[i + 1][2]
          /\ \E i \in 1..2 : /\ list[i][1] = list[i + 1][1]
                             /\ list[i][2] < list[i + 1][2]

\* C25: of two entries of the list compute_ready_tasks returns that have the
\* same effective priority and the same created_at, the one whose name comes
\* first comes first (the names T1, T2, ... are ordered as their numbers).
C25_TiesByName ==
    \A list \in ReadyListValuesNow :
        \A i \in DOMAIN list, j \in DOMAIN list :
            (i < j /\ list[i][1] = list[j][1] /\ list[i][2] = list[j][2]) =>
                list[i][3] < list[j][3]

\* C26: in every entry of the list compute_ready_tasks returns, the flag
\* priority_boosted is true exactly when the effective priority returned
\* differs from the static priority of the task, whatever aging_boost is.
C26_BoostedFlagExact ==
    \A list \in ReadyListValuesNow :
        \A i \in DOMAIN list :
            list[i][4] <=> (list[i][1] # sched.tasks[list[i][3]].priority)

\* The scheduler object in use
Scheduler == IF impl = PK THEN pk ELSE opt

\* The priority compute_effective_priority answers for a task
InheritedNow(v) ==
    IF impl = PK THEN PK_compute_effective_priority(pk, v)
    ELSE Opt_effective_priority(opt, v)

\* C27: a task in the list compute_ready_tasks returns whose age is at least
\* aging_threshold and whose priority after inheritance is above CRITICAL in
\* value is returned with max(0, value - aging_boost), the boost applied once;
\* a younger task, or one already CRITICAL, is returned with its inherited
\* priority; and boost(n) of any of the five levels is one of the five levels.
C27_AgingBoost ==
    /\ \A list \in ReadyListValuesNow :
          \A i \in DOMAIN list :
             LET v == list[i][3]
                 inherited == InheritedNow(v)
                 old == now - sched.tasks[v].created_at >= Scheduler.aging_threshold
             IN /\ list[i][1] \in CRITICAL..BACKLOG
                /\ list[i][1] =
                      IF old /\ inherited > CRITICAL
                      THEN (IF inherited - Scheduler.aging_boost < 0 THEN 0
                            ELSE inherited - Scheduler.aging_boost)
                      ELSE inherited
    /\ \A p \in CRITICAL..BACKLOG, n \in 0..(BACKLOG + 1) :
          boost(p, n) \in CRITICAL..BACKLOG

\* compute_ready_tasks has returned a list with an aged task whose boost was
\* cut off at CRITICAL, an aged task boosted by the full aging_boost, and a
\* task younger than the threshold left at its own priority
C27_Witness ==
    /\ last.op = "compute_ready_tasks"
    /\ last.exc = "none"
    /\ Scheduler.aging_boost = MaxBoost
    /\ \E list \in ReadyListValuesNow :
          /\ last.ret = ToString(list)
          /\ \E i \in DOMAIN list :
                /\ now - list[i][2] >= Scheduler.aging_threshold
                /\ InheritedNow(list[i][3]) = HIGH
                /\ list[i][1] = CRITICAL
          /\ \E i \in DOMAIN list :
                /\ now - list[i][2] >= Scheduler.aging_threshold
                /\ InheritedNow(list[i][3]) = BACKLOG
                /\ list[i][1] = BACKLOG - MaxBoost
          /\ \E i \in DOMAIN list :
                /\ now - list[i][2] < Scheduler.aging_threshold
                /\ list[i][1] = InheritedNow(list[i][3])
                /\ list[i][1] > CRITICAL

\* The order a topological_sort call made now returns
TopoNow ==
    IF impl = PK THEN PK_topological_sort(pk).ret
    ELSE Opt_topological_sort(opt).ret

\* No task is reached from itself along the edges of the scheduler in use
AcyclicNow ==
    \A u \in DOMAIN Scheduler.adj : u \notin Descendants(Scheduler.adj, u)

\* C28: in the order topological_sort returns for an acyclic graph, for every
\* edge u -> v, u comes before v: no task stands before one of its
\* predecessors, whatever the statuses, priorities and creation times.
C28_TopoRespectsEdges ==
    AcyclicNow =>
        \A i \in DOMAIN TopoNow, j \in DOMAIN TopoNow :
            TopoNow[j] \in Entry(Scheduler.adj, TopoNow[i]) => i < j

\* The outcome of a PearceKellyScheduler.calculate_schedule call made now
ScheduleNow == PK_calculate_schedule(pk)

\* C29: the order topological_sort returns holds every registered name exactly
\* once, and calculate_schedule of PearceKellyScheduler returns a schedule
\* with one entry for every registered task.
C29_TopoIsPermutation ==
    /\ Len(TopoNow) = Cardinality(DOMAIN Scheduler.tasks)
    /\ {TopoNow[i] : i \in DOMAIN TopoNow} = DOMAIN Scheduler.tasks
    /\ impl = PK =>
          /\ ScheduleNow.exc = "none"
          /\ Len(ScheduleNow.ret) = Cardinality(DOMAIN pk.tasks)

\* The same on acyclic graphs only
C29_acyclic == AcyclicNow => C29_TopoIsPermutation

\* The entry of a task in the schedule calculate_schedule returns
EntryOf(schedule, v) ==
    schedule[CHOOSE i \in DOMAIN schedule : schedule[i][3] = v]

\* C30: in the schedule PearceKellyScheduler.calculate_schedule returns for an
\* acyclic graph, every task ends duration after it starts, and starts at the
\* greatest end_time of its direct predecessors, at 0 when it has none; so
\* for every edge u -> v, v starts no earlier than u ends.
C30_ScheduleTimes ==
    (impl = PK /\ AcyclicNow /\ ScheduleNow.exc = "none") =>
        LET schedule == ScheduleNow.ret
            listed == {schedule[i][3] : i \in DOMAIN schedule}
        IN \A v \in listed :
              LET e == EntryOf(schedule, v)
                  ends == {EntryOf(schedule, u)[4] :
                              u \in Entry(pk.preds, v) \cap listed}
              IN /\ e[4] = e[1] + duration
                 /\ e[1] = IF ends = {} THEN 0
                           ELSE CHOOSE x \in ends : \A y \in ends : y <= x

\* The paths the cycle error of an add_dependency(u, v) call made now would
\* carry; none if the call would not raise it
CyclePathsNow(u, v) ==
    {f.ret : f \in {g \in (IF impl = PK THEN PK_add_dependency(pk, u, v)
                            ELSE Opt_add_dependency(opt, u, v)) :
                        g.exc = "ValueError: cycle"}}

\* C31: the path carried by the cycle error of add_dependency(u, v) has the
\* form u -> v -> ... -> u: it starts and ends with u, its second element is
\* v, and from v on every step follows an edge of adj forwards.
C31_CyclePathForm ==
    \A u \in DOMAIN Scheduler.tasks, v \in DOMAIN Scheduler.tasks :
        \A path \in CyclePathsNow(u, v) :
            /\ Len(path) >= 3
            /\ path[1] = u
            /\ path[2] = v
            /\ path[Len(path)] = u
            /\ \A i \in 2..(Len(path) - 1) :
                  path[i + 1] \in Entry(Scheduler.adj, path[i])

\* Gate kinds outside the gate map, and the ids a caller may pair them with
UnknownKinds == {"webhook", "cron"}
GateIds == {None, "", GateId}

\* C32: GateEvaluator.is_open returns True when kind and id are both absent,
\* and raises the unknown-gate-kind error for every kind other than "timer",
\* "human" and "gh:pr", also when the id is absent or empty.
C32_UnknownKindRejected ==
    /\ ~GateRaises(None, None)
    /\ is_open(Scheduler, None, None)
    /\ \A await_type \in UnknownKinds, await_id \in GateIds :
          GateRaises(await_type, await_id)

\* The timer-gated tasks of the scheduler in use
TimerGated == {v \in DOMAIN Scheduler.tasks :
                  Scheduler.tasks[v].await_type = "timer"}

\* C33: a task behind the gate ("timer", t) is not returned by a
\* compute_ready_tasks call made while now < t, and is returned by a call made
\* when now >= t if it is OPEN and has no OPEN predecessor; and a timer gate
\* that is open stays open as the clock advances.
C33_TimerGateFollowed ==
    /\ [](\A v \in TimerGated :
            LET task == Scheduler.tasks[v]
            IN IF now < fromisoformat(task.await_id)
               THEN v \notin ReadyNow
               ELSE (task.status = OPEN /\ FreshIndegree(Scheduler, v) = 0)
                       => v \in ReadyNow)
    /\ [][\A v \in TimerGated :
             is_open(Scheduler, "timer", Scheduler.tasks[v].await_id)
                => is_open(Scheduler, "timer", Scheduler.tasks[v].await_id)']_vars

\* C34 (progress): in a PearceKellySchedulerOptimized that holds only ungated
\* tasks and an acyclic graph, compute_ready_tasks returns some task as long
\* as some task is not CLOSED, and no task is BLOCKED once all its
\* predecessors are CLOSED; so a caller completing the tasks returned closes
\* every task in the end.
C34_Progress ==
    (/\ impl = Opt
     /\ AcyclicNow
     /\ \A v \in DOMAIN opt.tasks : opt.tasks[v].await_type = None) =>
        /\ (DOMAIN opt.tasks # Closed(opt)) => ReadyNow # {}
        /\ \A v \in DOMAIN opt.tasks :
              (opt.tasks[v].status = BLOCKED) =>
                 ~(Entry(opt.preds, v) \subseteq Closed(opt))

\* C35: while the graph is acyclic, a task whose status is BLOCKED has an
\* OPEN predecessor or a closed gate, and a task whose status is OPEN and which has a predecessor (it has
\* then been the destination of an add_dependency call) has no OPEN
\* predecessor.
C35_StatusConsistent ==
    AcyclicNow =>
        \A v \in DOMAIN Scheduler.tasks :
            LET task == Scheduler.tasks[v]
            IN /\ task.status = BLOCKED =>
                    \/ FreshIndegree(Scheduler, v) > 0
                    \/ ~gate_open(Scheduler, task)
               /\ (task.status = OPEN /\ Entry(Scheduler.preds, v) # {}) =>
                    FreshIndegree(Scheduler, v) = 0

\* The tasks whose rank a step changes
Reranked ==
    {t \in DOMAIN Scheduler.ranks : Scheduler'.ranks[t] # Scheduler.ranks[t]}

\* C36: the ranks of the n registered tasks are pairwise distinct and are the
\* values 0..n-1; register_task gives the new task the rank n-1, n counted
\* after the insertion, and changes no other rank; and any other call only
\* permutes the rank values of the tasks whose rank it changes.
C36_RanksPermutation ==
    /\ [](/\ DOMAIN Scheduler.ranks = DOMAIN Scheduler.tasks
          /\ {Scheduler.ranks[t] : t \in DOMAIN Scheduler.tasks} =
                0..(Cardinality(DOMAIN Scheduler.tasks) - 1))
    /\ [][(last'.op = "register_task" /\ last'.exc = "none") =>
            /\ Reranked = {}
            /\ \A t \in DOMAIN Scheduler'.tasks \ DOMAIN Scheduler.tasks :
                  Scheduler'.ranks[t] =
                     Cardinality(DOMAIN Scheduler'.tasks) - 1]_vars
    /\ [][{Scheduler'.ranks[t] : t \in Reranked} =
            {Scheduler.ranks[t] : t \in Reranked}]_vars

\* C37: adj and preds mirror each other and hold registered names only:
\* v is in adj[u] exactly when u is in preds[v], and every key and every
\* member of adj and preds is the name of a registered task.
C37_AdjPredsMirror ==
    LET self == Scheduler
        names == DOMAIN self.tasks
    IN /\ DOMAIN self.adj \subseteq names
       /\ DOMAIN self.preds \subseteq names
       /\ \A u \in DOMAIN self.adj : self.adj[u] \subseteq names
       /\ \A v \in DOMAIN self.preds : self.preds[v] \subseteq names
       /\ \A u \in names, v \in names :
             v \in Entry(self.adj, u) <=> u \in Entry(self.preds, v)

\* C38: add_dependency and remove_dependency change no status but that of
\* the destination, from OPEN to BLOCKED or from BLOCKED to OPEN: a task
\* that is IN_PROGRESS or CLOSED keeps its status across them; and
\* compute_ready_tasks returns no IN_PROGRESS task.
C38_EdgeEditsStatus ==
    /\ [](\A v \in DOMAIN Scheduler.tasks :
            Scheduler.tasks[v].status = IN_PROGRESS => v \notin ReadyNow)
    /\ [][last'.op \in {"add_dependency", "remove_dependency"} =>
            \A v \in DOMAIN Scheduler.tasks :
               LET old == Scheduler.tasks[v].status
                   new == Scheduler'.tasks[v].status
               IN new # old =>
                     /\ Len(last'.args) = 2 /\ v = last'.args[2]
                     /\ <<old, new>> \in {<<OPEN, BLOCKED>>,
                                           <<BLOCKED, OPEN>>}]_vars

\* C39 (fast path): an add_dependency(u, v) call made when ranks[u] < ranks[v]
\* and v is not in adj[u] adds v to adj[u] and u to preds[v], and leaves the
\* rank of every task as it was.
C39_FastPath ==
    [][(/\ last'.op = "add_dependency"
        /\ calls' = calls + 1
        /\ last'.args[1] \in DOMAIN Scheduler.tasks
        /\ last'.args[2] \in DOMAIN Scheduler.tasks
        /\ Scheduler.ranks[last'.args[1]] < Scheduler.ranks[last'.args[2]]
        /\ last'.args[2] \notin Scheduler.adj[last'.args[1]]) =>
          /\ last'.args[2] \in Scheduler'.adj[last'.args[1]]
          /\ last'.args[1] \in Scheduler'.preds[last'.args[2]]
          /\ Scheduler'.ranks = Scheduler.ranks]_vars

\* T1 and T2 were registered in this order and add_dependency(T1, T2), the
\* third call, found ranks[T1] < ranks[T2] and no edge: the edge is in adj
\* and preds and the ranks are those of the registrations
C39_Witness ==
    /\ calls = 3
    /\ last.op = "add_dependency"
    /\ last.args = <<1, 2>>
    /\ last.exc = "none"
    /\ Scheduler.order = <<1, 2>>
    /\ 2 \in Scheduler.adj[1]
    /\ 1 \in Scheduler.preds[2]
    /\ Scheduler.ranks[1] = 0 /\ Scheduler.ranks[2] = 1

\* The record a get_statistics call made now returns
StatisticsNow ==
    IF impl = PK THEN PK_get_statistics(pk).ret
    ELSE Opt_get_statistics(opt).ret

\* C40: get_statistics reports the number of registered tasks, the number of
\* tasks compute_ready_tasks returns in the same state, and the number of
\* edges of adj, in PearceKellySchedulerOptimized also right after a
\* mutation.
C40_StatisticsAgree ==
    /\ StatisticsNow[1] = Cardinality(DOMAIN Scheduler.tasks)
    /\ StatisticsNow[2] = Cardinality(ReadyNow)
    /\ StatisticsNow[3] =
          Cardinality(UNION {{<<u, v>> : v \in Scheduler.adj[u]} :
                                u \in DOMAIN Scheduler.adj})

====
